---- MODULE Spec2Model ----
(***************************************************************************)
(* A model of gomailer: the Mailer configuration built by NewMailer and    *)
(* its options, the negotiation performed by Mailer.ConnectAndAuthenticate *)
(* (dial, implicit TLS, client construction, Hello, STARTTLS, mechanism    *)
(* selection, Auth) and the session operations of mailSender.              *)
(*                                                                         *)
(* Strings the code inspects byte by byte (the advertised AUTH value) are  *)
(* sequences of one-character strings.  Every call the code makes on a     *)
(* collaborator (the dialer, the SMTP client, the data writer) is appended *)
(* to the variable calls, in the order the code makes it.                  *)
(***************************************************************************)
EXTENDS Integers, Sequences, FiniteSets, TLC

VARIABLES
    mailer,     \* the Mailer struct
    pc,         \* position of the running ConnectAndAuthenticate call
    server,     \* what the server of the current connection advertises
    conn,       \* the transport opened by the current call
    calls,      \* collaborator calls of the current connection, in order
    result,     \* what the last ConnectAndAuthenticate call returned
    connects,   \* number of ConnectAndAuthenticate calls started
    sender,     \* per caller, the running mailSender.Send and what it returned
    sends,      \* number of Send calls started on the current session
    closes,     \* mailSender.Close calls on the current session and the last return
    once,       \* the running Mailer.Send and what it returned
    enc,        \* a Message and what its Encode calls returned, in order
    login,      \* a loginAuth and its Start and Next calls with their returns, in order
    applied     \* the options NewMailer has applied, each with the Mailer before and after

vars ==
    <<mailer, pc, server, conn, calls, result, connects, sender, sends, closes, once, enc,
      login, applied>>

\* The state of the functions that touch no connection.
pureVars == <<enc, login, applied>>

sendVars == <<sender, sends, closes, once, pureVars>>

----------------------------------------------------------------------------
(* Bounds of the model. *)

MaxOpts == 2
MaxMechs == 2
MaxConnects == 2
MaxRcpt == 2
MaxSends == 1
MaxReuse == 2
MaxCloses == 2
MaxAtt == 2
MaxHdrs == 2
MaxEncodes == 2
MaxChallenges == 2
MaxText == 4
MaxChunk == 3

----------------------------------------------------------------------------
(* Constants of mailer.go. *)

sslPort == 465

crmAuthMechanism == <<"C", "R", "A", "M", "-", "M", "D", "5">>

plainAuthMechanism == <<"P", "L", "A", "I", "N">>

loginAuthMechanism == <<"L", "O", "G", "I", "N">>

StartTLSExt == "STARTTLS"

AuthExt == "AUTH"

----------------------------------------------------------------------------
(* Values the environment supplies. *)

Hosts == {"smtp.example.com"}

Ports == {sslPort, 587}

Usernames == {"", "user"}

Passwords == {"password"}

\* A mechanism name that merely contains "PLAIN".
plainClientToken == plainAuthMechanism \o <<"-", "C", "T">>

MechNames == {crmAuthMechanism, plainAuthMechanism, loginAuthMechanism, plainClientToken}

RECURSIVE JoinSpace(_)
JoinSpace(names) ==
    IF names = <<>> THEN <<>>
    ELSE IF Len(names) = 1 THEN names[1]
    ELSE names[1] \o <<" ">> \o JoinSpace(Tail(names))

Injective(s) == \A i, j \in DOMAIN s : s[i] = s[j] => i = j

MechLists == UNION {{s \in [1..n -> MechNames] : Injective(s)} : n \in 0..MaxMechs}

\* The value of the AUTH line of the EHLO response.
AuthValues == {JoinSpace(l) : l \in MechLists}

\* starttls: STARTTLS is advertised; auth: the AUTH extension is advertised
\* with value auths.
Servers ==
    {[starttls |-> s, auth |-> TRUE, auths |-> a] : s \in BOOLEAN, a \in AuthValues}
    \cup {[starttls |-> s, auth |-> FALSE, auths |-> <<>>] : s \in BOOLEAN}

NoServer == [starttls |-> FALSE, auth |-> FALSE, auths |-> <<>>]

\* Causes a failing collaborator may report.
Causes == {"errA", "errB"}

----------------------------------------------------------------------------
(* Configuration: options and NewMailer. *)

NilTLS == [nil |-> TRUE, ServerName |-> ""]

defaultTLSCfg(host) == [nil |-> FALSE, ServerName |-> host]

defaultDialTimeout == 5

NilAuth == [kind |-> "nil", username |-> "", secret |-> "", host |-> ""]

CustomAuth == [kind |-> "custom", username |-> "", secret |-> "", host |-> ""]

WithLocalName(l, m) == IF l # "" THEN [m EXCEPT !.localName = l] ELSE m

WithTLSConfig(cfg, m) == IF ~cfg.nil THEN [m EXCEPT !.tlsConfig = cfg] ELSE m

WithDialTimeout(t, m) == IF t > 0 THEN [m EXCEPT !.dialTimeout = t] ELSE m

WithAuth(a, m) == IF a.kind # "nil" THEN [m EXCEPT !.auth = a] ELSE m

WithSecrets(s, m) == IF s # "" THEN [m EXCEPT !.secrets = s] ELSE m

\* Mutant: the flag is stored whatever its value.
WithSSLEnabled_Assign(s, m) == [m EXCEPT !.sslEnabled = s]

WithSSLEnabled(s, m) == IF s THEN [m EXCEPT !.sslEnabled = s] ELSE m

Options ==
    {[opt |-> "WithLocalName", str |-> l, cfg |-> NilTLS, t |-> 0, a |-> NilAuth, b |-> FALSE] :
        l \in {"", "localhost"}}
    \cup {[opt |-> "WithTLSConfig", str |-> "", cfg |-> c, t |-> 0, a |-> NilAuth, b |-> FALSE] :
        c \in {NilTLS, [nil |-> FALSE, ServerName |-> "custom"]}}
    \cup {[opt |-> "WithDialTimeout", str |-> "", cfg |-> NilTLS, t |-> t, a |-> NilAuth, b |-> FALSE] :
        t \in {0, 10}}
    \cup {[opt |-> "WithAuth", str |-> "", cfg |-> NilTLS, t |-> 0, a |-> a, b |-> FALSE] :
        a \in {NilAuth, CustomAuth}}
    \cup {[opt |-> "WithSecrets", str |-> s, cfg |-> NilTLS, t |-> 0, a |-> NilAuth, b |-> FALSE] :
        s \in {"", "secret"}}
    \cup {[opt |-> "WithSSLEnabled", str |-> "", cfg |-> NilTLS, t |-> 0, a |-> NilAuth, b |-> b] :
        b \in BOOLEAN}

ApplyOption(o, m) ==
    CASE o.opt = "WithLocalName" -> WithLocalName(o.str, m)
      [] o.opt = "WithTLSConfig" -> WithTLSConfig(o.cfg, m)
      [] o.opt = "WithDialTimeout" -> WithDialTimeout(o.t, m)
      [] o.opt = "WithAuth" -> WithAuth(o.a, m)
      [] o.opt = "WithSecrets" -> WithSecrets(o.str, m)
      [] o.opt = "WithSSLEnabled" -> WithSSLEnabled(o.b, m)

RECURSIVE ApplyOptions(_, _)
ApplyOptions(opts, m) ==
    IF opts = <<>> THEN m
    ELSE ApplyOptions(Tail(opts), ApplyOption(Head(opts), m))

NewMailer(host, port, username, password, opts) ==
    ApplyOptions(opts,
        [Port |-> port, Username |-> username, Password |-> password, Host |-> host,
         localName |-> "", auth |-> NilAuth, tlsConfig |-> defaultTLSCfg(host),
         sslEnabled |-> FALSE, secrets |-> "", dialTimeout |-> defaultDialTimeout])

OptionLists == UNION {[1..n -> Options] : n \in 0..MaxOpts}

Mailers ==
    {NewMailer(h, p, u, pw, opts) :
        h \in Hosts, p \in Ports, u \in Usernames, pw \in Passwords, opts \in OptionLists}

addr(m) == <<m.Host, m.Port>>

----------------------------------------------------------------------------
(* Helpers on strings and on the record of calls. *)

\* strings.Contains
Contains(s, sub) ==
    \E i \in 1..(Len(s) - Len(sub) + 1) : SubSeq(s, i, i + Len(sub) - 1) = sub

Call(op, arg, ret) == [op |-> op, arg |-> arg, ret |-> ret]

\* An error is the chain of its messages, outermost first; nil is <<>>.
\* The error a collaborator reports.
Cause(e) == <<[text |-> e, addr |-> ""]>>

\* fmt.Errorf("<msg>: %w", err)
Errorf(msg, err) == <<[text |-> msg, addr |-> ""]>> \o err

\* fmt.Errorf("<msg> %s: %w", address, err)
ErrorfAddr(msg, address, err) == <<[text |-> msg, addr |-> address]>> \o err

NoResult == [kind |-> "none", err |-> <<>>]

SessionResult == [kind |-> "session", err |-> <<>>]

ErrorResult(err) == [kind |-> "error", err |-> err]

NoConn == [state |-> "none", tls |-> "none"]

----------------------------------------------------------------------------
(* Mechanism selection. *)

smtpCRAMMD5Auth(username, secret) ==
    [kind |-> "CRAM-MD5", username |-> username, secret |-> secret, host |-> ""]

smtpPlainAuth(identity, username, password, host) ==
    [kind |-> "PLAIN", username |-> username, secret |-> password, host |-> host]

newSmtpLoginAuth(username, password) ==
    [kind |-> "LOGIN", username |-> username, secret |-> password, host |-> ""]

\* Mutant: no LOGIN fallback when neither CRAM-MD5 nor PLAIN is advertised.
authenticationMechanism_NoFallback(m, ok, auths) ==
    IF ok
    THEN IF Contains(auths, crmAuthMechanism)
         THEN smtpCRAMMD5Auth(m.Username, m.secrets)
         ELSE IF Contains(auths, plainAuthMechanism)
              THEN smtpPlainAuth("", m.Username, m.Password, m.Host)
              ELSE m.auth
    ELSE m.auth

\* Mutant: PLAIN is looked for before CRAM-MD5.
authenticationMechanism_PlainFirst(m, ok, auths) ==
    IF ok
    THEN IF Contains(auths, plainAuthMechanism)
         THEN smtpPlainAuth("", m.Username, m.Password, m.Host)
         ELSE IF Contains(auths, crmAuthMechanism)
              THEN smtpCRAMMD5Auth(m.Username, m.secrets)
              ELSE newSmtpLoginAuth(m.Username, m.Password)
    ELSE m.auth

\* The authenticator Mailer.authenticationMechanism stores in m.auth, given
\* the answer <<ok, auths>> of Extension("AUTH").
authenticationMechanism(m, ok, auths) ==
    IF ok
    THEN IF Contains(auths, crmAuthMechanism)
         THEN smtpCRAMMD5Auth(m.Username, m.secrets)
         ELSE IF Contains(auths, plainAuthMechanism)
              THEN smtpPlainAuth("", m.Username, m.Password, m.Host)
              ELSE newSmtpLoginAuth(m.Username, m.Password)
    ELSE m.auth

----------------------------------------------------------------------------
(* Messages and the encoder of package message.  A string is a sequence of  *)
(* atoms; an atom is a literal piece of text, and the texts the encoder     *)
(* measures or recodes (bodies, subject, attachment data) are given one     *)
(* character per atom.                                                      *)

maxLineLength == 76

plainContentType == <<"text/plain; charset=us-ascii">>

htmlTypeContentType == <<"text/html; charset=UTF-8">>

boundary == <<"BOUNDARY">>

altBoundary == <<"ALT-BOUNDARY">>

crlf == <<"\r\n">>

separator == <<", ">>

multiPartMixedContentType == <<"multipart/mixed; boundary=">> \o boundary

multiPartAlternativeContentType == <<"multipart/alternative; boundary=">> \o altBoundary

\* The printable ASCII characters, from code 32 on ("grave" is the backquote).
Ascii ==
    <<" ", "!", "\"", "#", "$", "%", "&", "'", "(", ")", "*", "+", ",", "-", ".", "/",
      "0", "1", "2", "3", "4", "5", "6", "7", "8", "9", ":", ";", "<", "=", ">", "?",
      "@", "A", "B", "C", "D", "E", "F", "G", "H", "I", "J", "K", "L", "M", "N", "O",
      "P", "Q", "R", "S", "T", "U", "V", "W", "X", "Y", "Z", "[", "\\", "]", "^", "_",
      "grave", "a", "b", "c", "d", "e", "f", "g", "h", "i", "j", "k", "l", "m", "n", "o",
      "p", "q", "r", "s", "t", "u", "v", "w", "x", "y", "z", "{", "|", "}", "~">>

\* []byte(input): the byte of each character.
ByteOf(ch) == 31 + (CHOOSE i \in DOMAIN Ascii : Ascii[i] = ch)

Bytes(input) == [i \in DOMAIN input |-> ByteOf(input[i])]

\* The alphabet of base64.StdEncoding.
StdAlphabet ==
    <<"A", "B", "C", "D", "E", "F", "G", "H", "I", "J", "K", "L", "M", "N", "O", "P",
      "Q", "R", "S", "T", "U", "V", "W", "X", "Y", "Z", "a", "b", "c", "d", "e", "f",
      "g", "h", "i", "j", "k", "l", "m", "n", "o", "p", "q", "r", "s", "t", "u", "v",
      "w", "x", "y", "z", "0", "1", "2", "3", "4", "5", "6", "7", "8", "9", "+", "/">>

Sextet(n, k) == StdAlphabet[((n \div (64 ^ k)) % 64) + 1]

\* base64.StdEncoding.EncodeToString
RECURSIVE EncodeToString(_)
EncodeToString(bs) ==
    IF Len(bs) = 0 THEN <<>>
    ELSE IF Len(bs) = 1
    THEN LET n == bs[1] * 65536 IN <<Sextet(n, 3), Sextet(n, 2), "=", "=">>
    ELSE IF Len(bs) = 2
    THEN LET n == bs[1] * 65536 + bs[2] * 256 IN
         <<Sextet(n, 3), Sextet(n, 2), Sextet(n, 1), "=">>
    ELSE LET n == bs[1] * 65536 + bs[2] * 256 + bs[3] IN
         <<Sextet(n, 3), Sextet(n, 2), Sextet(n, 1), Sextet(n, 0)>>
             \o EncodeToString(SubSeq(bs, 4, Len(bs)))

\* strings.TrimRight(s, cutset) for a one-character cutset.
RECURSIVE TrimRight(_, _)
TrimRight(s, ch) ==
    IF s # <<>> /\ s[Len(s)] = ch THEN TrimRight(SubSeq(s, 1, Len(s) - 1), ch) ELSE s

\* Mutant: the padding is left in place.
encodeBase64_Padded(input) == EncodeToString(Bytes(input))

encodeBase64(input) == TrimRight(EncodeToString(Bytes(input)), "=")

\* Mutant: a chunk is cut off while the rest is at least maxLength long.
RECURSIVE splitLines_CutAtLength(_, _)
splitLines_CutAtLength(input, maxLength) ==
    IF Len(input) >= maxLength
    THEN <<SubSeq(input, 1, maxLength)>>
             \o splitLines_CutAtLength(SubSeq(input, maxLength + 1, Len(input)), maxLength)
    ELSE <<input>>

RECURSIVE splitLines(_, _)
splitLines(input, maxLength) ==
    IF Len(input) > maxLength
    THEN <<SubSeq(input, 1, maxLength)>>
             \o splitLines(SubSeq(input, maxLength + 1, Len(input)), maxLength)
    ELSE <<input>>

\* Mutant: the elements are joined with nothing between them.
RECURSIVE Join_NoSeparator(_, _)
Join_NoSeparator(elems, sep) ==
    IF elems = <<>> THEN <<>>
    ELSE <<elems[1]>> \o Join_NoSeparator(Tail(elems), sep)

\* strings.Join of a list of atoms.
RECURSIVE Join(_, _)
Join(elems, sep) ==
    IF elems = <<>> THEN <<>>
    ELSE IF Len(elems) = 1 THEN <<elems[1]>>
    ELSE <<elems[1]>> \o sep \o Join(Tail(elems), sep)

\* line + crlf for every line, concatenated.
RECURSIVE WriteLines(_)
WriteLines(lines) ==
    IF lines = <<>> THEN <<>> ELSE Head(lines) \o crlf \o WriteLines(Tail(lines))

\* Attachment.encode
AttachmentEncode(a) ==
    <<"--">> \o boundary \o crlf
    \o <<"Content-Type: ", a.MIMEType, "; name=\"", a.Filename, "\"">> \o crlf
    \o <<"Content-Transfer-Encoding: base64">> \o crlf
    \o <<"Content-Disposition: attachment; filename=\"", a.Filename, "\"">> \o crlf
    \o crlf
    \o WriteLines(splitLines(encodeBase64(a.Data), maxLineLength))
    \o crlf

\* Mutant: in the alternative envelope the HTML part comes first.
encodeMessageContent_HtmlFirst(m) ==
    IF m.Body # <<>> /\ m.HTMLBody # <<>>
    THEN <<"Content-Type: ">> \o multiPartAlternativeContentType \o crlf
         \o <<"--">> \o altBoundary \o crlf
         \o <<"Content-Type: ">> \o htmlTypeContentType \o crlf
         \o <<"Content-Transfer-Encoding: 8bit">> \o crlf
         \o crlf
         \o m.HTMLBody \o crlf
         \o <<"--">> \o altBoundary \o crlf
         \o <<"Content-Type: ">> \o plainContentType \o crlf
         \o <<"Content-Transfer-Encoding: 8bit">> \o crlf
         \o crlf
         \o WriteLines(splitLines(m.Body, maxLineLength))
         \o crlf
         \o <<"--">> \o altBoundary \o <<"--">> \o crlf
    ELSE IF m.HTMLBody # <<>>
    THEN m.HTMLBody \o crlf
    ELSE WriteLines(splitLines(m.Body, maxLineLength))

encodeMessageContent(m) ==
    IF m.Body # <<>> /\ m.HTMLBody # <<>>
    THEN <<"Content-Type: ">> \o multiPartAlternativeContentType \o crlf
         \o <<"--">> \o altBoundary \o crlf
         \o <<"Content-Type: ">> \o plainContentType \o crlf
         \o <<"Content-Transfer-Encoding: 8bit">> \o crlf
         \o crlf
         \o WriteLines(splitLines(m.Body, maxLineLength))
         \o crlf
         \o <<"--">> \o altBoundary \o crlf
         \o <<"Content-Type: ">> \o htmlTypeContentType \o crlf
         \o <<"Content-Transfer-Encoding: 8bit">> \o crlf
         \o crlf
         \o m.HTMLBody \o crlf
         \o <<"--">> \o altBoundary \o <<"--">> \o crlf
    ELSE IF m.HTMLBody # <<>>
    THEN m.HTMLBody \o crlf
    ELSE WriteLines(splitLines(m.Body, maxLineLength))

\* Mutant: with attachments the two bodies are not nested as an
\* alternative; only the plain part is written.
encodeMultiPartMixed_PlainOnly(m) ==
    (IF m.HTMLBody # <<>> /\ m.Body = <<>>
     THEN <<"Content-Type: ">> \o htmlTypeContentType \o crlf
          \o <<"Content-Transfer-Encoding: 8bit">> \o crlf
          \o crlf
          \o m.HTMLBody
     ELSE <<"Content-Type: ">> \o plainContentType \o crlf
          \o <<"Content-Transfer-Encoding: 8bit">> \o crlf
          \o crlf
          \o WriteLines(splitLines(m.Body, maxLineLength)))
    \o crlf

encodeMultiPartMixed(m) ==
    (IF m.HTMLBody # <<>> /\ m.Body # <<>>
     THEN encodeMessageContent(m)
     ELSE IF m.HTMLBody # <<>>
     THEN <<"Content-Type: ">> \o htmlTypeContentType \o crlf
          \o <<"Content-Transfer-Encoding: 8bit">> \o crlf
          \o crlf
          \o m.HTMLBody
     ELSE <<"Content-Type: ">> \o plainContentType \o crlf
          \o <<"Content-Transfer-Encoding: 8bit">> \o crlf
          \o crlf
          \o WriteLines(splitLines(m.Body, maxLineLength)))
    \o crlf

\* Mutant: the attachments are written last to first.
RECURSIVE EncodeAttachments_Reversed(_)
EncodeAttachments_Reversed(as) ==
    IF as = <<>> THEN <<>>
    ELSE EncodeAttachments_Reversed(Tail(as)) \o AttachmentEncode(Head(as))

RECURSIVE EncodeAttachments(_)
EncodeAttachments(as) ==
    IF as = <<>> THEN <<>> ELSE AttachmentEncode(Head(as)) \o EncodeAttachments(Tail(as))

\* The extra headers, in the order keys in which the map is ranged over.
RECURSIVE EncodeHeaders(_, _)
EncodeHeaders(headers, keys) ==
    IF keys = <<>> THEN <<>>
    ELSE <<Head(keys), ": ">> \o Join(headers[Head(keys)], <<", ">>) \o crlf
         \o EncodeHeaders(headers, Tail(keys))

\* The orders in which `range m.Headers` may visit the keys of the map.
KeyOrders(headers) ==
    {ks \in [1..Cardinality(DOMAIN headers) -> DOMAIN headers] :
        \A i, j \in DOMAIN ks : ks[i] = ks[j] => i = j}

\* Mutant: the HTML body is tested before the pair of bodies.
encode_HtmlFirst(m, keys) ==
    LET mailSubjectEncoded == <<"=?UTF-8?B?">> \o encodeBase64(m.Subject) \o <<"?=">>
        hasAttachement == Len(m.Attachments) > 0
        hasBothPlainAndHTML == m.Body # <<>> /\ m.HTMLBody # <<>>
    IN  <<"MIME-Version: 1.0">> \o crlf
        \o <<"Subject: ">> \o mailSubjectEncoded \o crlf
        \o <<"From: ", m.From>> \o crlf
        \o <<"Content-Type: ">>
        \o (IF hasAttachement THEN multiPartMixedContentType
            ELSE IF m.HTMLBody # <<>> THEN htmlTypeContentType
            ELSE IF hasBothPlainAndHTML THEN multiPartAlternativeContentType
            ELSE plainContentType)
        \o crlf
        \o (IF Len(m.Recipients) > 0
            THEN <<"To: ">> \o Join(m.Recipients, separator) \o crlf ELSE <<>>)
        \o (IF Len(m.Cc) > 0 THEN <<"Cc: ">> \o Join(m.Cc, separator) \o crlf ELSE <<>>)
        \o (IF Len(m.Bcc) > 0 THEN <<"Bcc: ">> \o Join(m.Bcc, separator) \o crlf ELSE <<>>)
        \o EncodeHeaders(m.Headers, keys)
        \o crlf
        \o (IF hasAttachement
            THEN <<"--">> \o boundary \o crlf
                 \o encodeMultiPartMixed(m)
                 \o EncodeAttachments(m.Attachments)
                 \o <<"--">> \o boundary \o <<"--">> \o crlf
            ELSE encodeMessageContent(m))

\* encode, ranging over the extra headers in the order keys.
encode(m, keys) ==
    LET mailSubjectEncoded == <<"=?UTF-8?B?">> \o encodeBase64(m.Subject) \o <<"?=">>
        hasAttachement == Len(m.Attachments) > 0
        hasBothPlainAndHTML == m.Body # <<>> /\ m.HTMLBody # <<>>
    IN  <<"MIME-Version: 1.0">> \o crlf
        \o <<"Subject: ">> \o mailSubjectEncoded \o crlf
        \o <<"From: ", m.From>> \o crlf
        \o <<"Content-Type: ">>
        \o (IF hasAttachement THEN multiPartMixedContentType
            ELSE IF hasBothPlainAndHTML THEN multiPartAlternativeContentType
            ELSE IF m.HTMLBody # <<>> THEN htmlTypeContentType
            ELSE plainContentType)
        \o crlf
        \o (IF Len(m.Recipients) > 0
            THEN <<"To: ">> \o Join(m.Recipients, separator) \o crlf ELSE <<>>)
        \o (IF Len(m.Cc) > 0 THEN <<"Cc: ">> \o Join(m.Cc, separator) \o crlf ELSE <<>>)
        \o (IF Len(m.Bcc) > 0 THEN <<"Bcc: ">> \o Join(m.Bcc, separator) \o crlf ELSE <<>>)
        \o EncodeHeaders(m.Headers, keys)
        \o crlf
        \o (IF hasAttachement
            THEN <<"--">> \o boundary \o crlf
                 \o encodeMultiPartMixed(m)
                 \o EncodeAttachments(m.Attachments)
                 \o <<"--">> \o boundary \o <<"--">> \o crlf
            ELSE encodeMessageContent(m))

\* The addresses mail.ParseAddress accepts, among those of the model.
Parseable == {"from@x.com", "a@x.com", "b@x.com", "c@x.com", "d@x.com"}

\* mail.ParseAddress: nil, or the error of the parser.
ParseAddress(address) ==
    IF address \in Parseable THEN <<>> ELSE Cause("mail: missing '@' or angle-addr")

\* The first recipient from position i on that does not parse, or 0.
RECURSIVE FirstBadRecipient(_, _)
FirstBadRecipient(rs, i) ==
    IF i > Len(rs) THEN 0
    ELSE IF ParseAddress(rs[i]) # <<>> THEN i
    ELSE FirstBadRecipient(rs, i + 1)

\* Mutant: an empty list of recipients passes validation.
validate_EmptyRecipients(m) ==
    IF m.From = "" THEN Cause("from address cannot be empty")
    ELSE IF ParseAddress(m.From) # <<>>
    THEN Errorf("invalid from address", ParseAddress(m.From))
    ELSE LET bad == FirstBadRecipient(m.Recipients, 1) IN
         IF bad # 0
         THEN ErrorfAddr("given %s is invalid recipient email", m.Recipients[bad],
                         ParseAddress(m.Recipients[bad]))
         ELSE <<>>

\* Message.validate: nil, or the error.
validate(m) ==
    IF m.From = "" THEN Cause("from address cannot be empty")
    ELSE IF ParseAddress(m.From) # <<>>
    THEN Errorf("invalid from address", ParseAddress(m.From))
    ELSE IF Len(m.Recipients) = 0 THEN Cause("recipients cannot be empty slice")
    ELSE LET bad == FirstBadRecipient(m.Recipients, 1) IN
         IF bad # 0
         THEN ErrorfAddr("given %s is invalid recipient email", m.Recipients[bad],
                         ParseAddress(m.Recipients[bad]))
         ELSE <<>>

\* Message.Encode: the bytes (nil on failure) and the error.
Encode(m, keys) ==
    IF validate(m) # <<>>
    THEN [bytes |-> <<>>, err |-> Errorf("failed to encode message", validate(m))]
    ELSE [bytes |-> encode(m, keys), err |-> <<>>]

NewMessage ==
    [From |-> "", Recipients |-> <<>>, Cc |-> <<>>, Bcc |-> <<>>, Body |-> <<>>,
     HTMLBody |-> <<>>, Subject |-> <<>>, Headers |-> <<>>, Attachments |-> <<>>]

----------------------------------------------------------------------------
(* Mailer.ConnectAndAuthenticate, one action per collaborator call. *)

\* The callers that may use a session.
Callers == {1, 2}

\* No Send is running and none has returned.
IdleSender ==
    [pc |-> "idle", msg |-> NewMessage, first |-> 0, i |-> 0, w |-> "none", werr |-> <<>>,
     ret |-> NoResult]

\* Close has not been called on the session.
NoCloses == [n |-> 0, ret |-> NoResult]

\* No Message has been encoded.
NoEnc == [msg |-> NewMessage, outs |-> <<>>]

\* No loginAuth has been made.
NoLogin == [auth |-> NilAuth, log |-> <<>>]

\* No Mailer.Send is running and none has returned.
IdleOnce == [pc |-> "idle", msg |-> NewMessage, ret |-> NoResult]

Init ==
    /\ mailer \in Mailers
    /\ pc = "idle"
    /\ server = NoServer
    /\ conn = NoConn
    /\ calls = <<>>
    /\ result = NoResult
    /\ connects = 0
    /\ sender = [c \in Callers |-> IdleSender]
    /\ sends = 0
    /\ closes = NoCloses
    /\ once = IdleOnce
    /\ enc = NoEnc
    /\ login = NoLogin
    /\ applied = <<>>

\* The error ConnectAndAuthenticate returns when its call op fails with err.
connectError(op, err) ==
    CASE op = "netDialTimeout" -> Errorf("failed to dial to smtp server", err)
      [] op = "newSmtpClient" -> Errorf("failed to dial smtp server", err)
      [] op = "Hello" -> Errorf("failed to dial smtp server", err)
      [] op = "StartTLS" -> Errorf("failed to StartTLS", err)
      [] op = "Auth" -> Errorf("failed to authenticate with smtp server", err)

Return(r) ==
    /\ pc' = "idle"
    /\ result' = r

\* netDialTimeout, then tlsClient when the port is the SSL port.
Dial ==
    /\ pc = "idle"
    /\ \A c \in Callers : sender[c].pc = "idle"
    /\ connects < MaxConnects
    /\ sender' = [c \in Callers |-> IdleSender]
    /\ sends' = 0
    /\ closes' = NoCloses
    /\ UNCHANGED <<once, pureVars>>
    /\ connects' = connects + 1
    /\ server' = NoServer
    /\ UNCHANGED mailer
    /\ \/ \E e \in Causes :
            /\ calls' = <<Call("netDialTimeout", <<addr(mailer), mailer.dialTimeout>>, e)>>
            /\ conn' = NoConn
            /\ Return(ErrorResult(connectError("netDialTimeout", Cause(e))))
       \/ /\ IF mailer.Port = sslPort
             THEN /\ calls' = <<Call("netDialTimeout", <<addr(mailer), mailer.dialTimeout>>, "ok"),
                                Call("tlsClient", mailer.tlsConfig, "ok")>>
                  /\ conn' = [state |-> "open", tls |-> "implicit"]
             ELSE /\ calls' = <<Call("netDialTimeout", <<addr(mailer), mailer.dialTimeout>>, "ok")>>
                  /\ conn' = [state |-> "open", tls |-> "none"]
          /\ pc' = "dialed"
          /\ result' = NoResult

\* Mutant: the error of newSmtpClient is ignored.
NewSmtpClient_IgnoreError(servers) ==
    /\ UNCHANGED sendVars
    /\ pc = "dialed"
    /\ UNCHANGED <<mailer, conn, connects, result>>
    /\ server' \in servers
    /\ pc' = "client"
    /\ \/ \E e \in Causes : calls' = Append(calls, Call("newSmtpClient", mailer.Host, e))
       \/ calls' = Append(calls, Call("newSmtpClient", mailer.Host, "ok"))

\* newSmtpClient, which is smtp.NewClient, reads the greeting of the server;
\* when it fails it has closed the connection it was given.
NewSmtpClient(servers) ==
    /\ UNCHANGED sendVars
    /\ pc = "dialed"
    /\ UNCHANGED <<mailer, connects>>
    /\ \/ \E e \in Causes :
            /\ calls' = Append(calls, Call("newSmtpClient", mailer.Host, e))
            /\ server' = server
            /\ conn' = [conn EXCEPT !.state = "closed"]
            /\ Return(ErrorResult(connectError("newSmtpClient", Cause(e))))
       \/ /\ calls' = Append(calls, Call("newSmtpClient", mailer.Host, "ok"))
          /\ server' \in servers
          /\ pc' = "client"
          /\ UNCHANGED <<conn, result>>

\* Mutant: the local name is never sent.
Hello_Skipped ==
    /\ UNCHANGED sendVars
    /\ pc = "client"
    /\ pc' = "greeted"
    /\ UNCHANGED <<mailer, conn, connects, server, calls, result>>

Hello ==
    /\ UNCHANGED sendVars
    /\ pc = "client"
    /\ UNCHANGED <<mailer, conn, connects, server>>
    /\ IF mailer.localName # ""
       THEN \/ \E e \in Causes :
                 /\ calls' = Append(calls, Call("Hello", mailer.localName, e))
                 /\ Return(ErrorResult(connectError("Hello", Cause(e))))
            \/ /\ calls' = Append(calls, Call("Hello", mailer.localName, "ok"))
               /\ pc' = "greeted"
               /\ UNCHANGED result
       ELSE /\ pc' = "greeted"
            /\ UNCHANGED <<calls, result>>

\* Mutant: a failed StartTLS returns without closing the client.
StartTLS_NoClose ==
    /\ UNCHANGED sendVars
    /\ pc = "greeted"
    /\ UNCHANGED <<mailer, connects, server>>
    /\ IF ~mailer.sslEnabled
       THEN LET q == Call("Extension", StartTLSExt, <<server.starttls, <<>>>>) IN
            IF server.starttls
            THEN \/ \E e \in Causes :
                      /\ calls' = calls \o <<q, Call("StartTLS", mailer.tlsConfig, e)>>
                      /\ UNCHANGED conn
                      /\ Return(ErrorResult(connectError("StartTLS", Cause(e))))
                 \/ /\ calls' = calls \o <<q, Call("StartTLS", mailer.tlsConfig, "ok")>>
                    /\ conn' = [conn EXCEPT !.tls = "starttls"]
                    /\ pc' = "secured"
                    /\ UNCHANGED result
            ELSE /\ calls' = Append(calls, q)
                 /\ pc' = "secured"
                 /\ UNCHANGED <<conn, result>>
       ELSE /\ pc' = "secured"
            /\ UNCHANGED <<calls, conn, result>>

StartTLS ==
    /\ UNCHANGED sendVars
    /\ pc = "greeted"
    /\ UNCHANGED <<mailer, connects, server>>
    /\ IF ~mailer.sslEnabled
       THEN LET q == Call("Extension", StartTLSExt, <<server.starttls, <<>>>>) IN
            IF server.starttls
            THEN \/ \E e \in Causes :
                      /\ calls' = calls \o <<q, Call("StartTLS", mailer.tlsConfig, e),
                                             Call("Close", "", "ok")>>
                      /\ conn' = [conn EXCEPT !.state = "closed"]
                      /\ Return(ErrorResult(connectError("StartTLS", Cause(e))))
                 \/ /\ calls' = calls \o <<q, Call("StartTLS", mailer.tlsConfig, "ok")>>
                    /\ conn' = [conn EXCEPT !.tls = "starttls"]
                    /\ pc' = "secured"
                    /\ UNCHANGED result
            ELSE /\ calls' = Append(calls, q)
                 /\ pc' = "secured"
                 /\ UNCHANGED <<conn, result>>
       ELSE /\ pc' = "secured"
            /\ UNCHANGED <<calls, conn, result>>

\* Mutant: the mechanism is selected even when an authenticator is set.
SelectMechanism_Always ==
    /\ UNCHANGED sendVars
    /\ pc = "secured"
    /\ UNCHANGED <<connects, server, conn, result>>
    /\ pc' = "selected"
    /\ IF mailer.Username # ""
       THEN /\ calls' = Append(calls, Call("Extension", AuthExt, <<server.auth, server.auths>>))
            /\ mailer' = [mailer EXCEPT !.auth = authenticationMechanism(mailer, server.auth, server.auths)]
       ELSE UNCHANGED <<calls, mailer>>

SelectMechanism ==
    /\ UNCHANGED sendVars
    /\ pc = "secured"
    /\ UNCHANGED <<connects, server, conn, result>>
    /\ pc' = "selected"
    /\ IF mailer.auth.kind = "nil" /\ mailer.Username # ""
       THEN /\ calls' = Append(calls, Call("Extension", AuthExt, <<server.auth, server.auths>>))
            /\ mailer' = [mailer EXCEPT !.auth = authenticationMechanism(mailer, server.auth, server.auths)]
       ELSE UNCHANGED <<calls, mailer>>

Auth ==
    /\ UNCHANGED sendVars
    /\ pc = "selected"
    /\ UNCHANGED <<mailer, connects, server>>
    /\ IF mailer.auth.kind # "nil"
       THEN \/ \E e \in Causes :
                 /\ calls' = calls \o <<Call("Auth", mailer.auth, e), Call("Close", "", "ok")>>
                 /\ conn' = [conn EXCEPT !.state = "closed"]
                 /\ Return(ErrorResult(connectError("Auth", Cause(e))))
            \/ /\ calls' = Append(calls, Call("Auth", mailer.auth, "ok"))
               /\ UNCHANGED conn
               /\ Return(SessionResult)
       ELSE /\ UNCHANGED <<calls, conn>>
            /\ Return(SessionResult)

Next ==
    \/ Dial
    \/ NewSmtpClient(Servers)
    \/ Hello
    \/ StartTLS
    \/ SelectMechanism
    \/ Auth

Spec == Init /\ [][Next]_vars

----------------------------------------------------------------------------
(* mailSender.Send, one action per collaborator call. *)

NilResult == [kind |-> "nil", err |-> <<>>]

\* Send returns r to caller c.
SendReturn(c, r) == sender' = [sender EXCEPT ![c].pc = "idle", ![c].ret = r]

\* What the steps of mailSender.Send leave alone, besides the count of Sends.
connVars == <<mailer, pc, server, conn, result, connects, closes, once, pureVars>>

\* Mutant: every Send after the first authenticates again before MAIL.
SendMail_Reauth(c, msgs, limit) ==
    /\ pc = "idle"
    /\ result.kind = "session"
    /\ sender[c].pc = "idle"
    /\ sends < limit
    /\ sends' = sends + 1
    /\ UNCHANGED connVars
    /\ \E message \in msgs :
          LET again == IF sends > 0 THEN <<Call("Auth", mailer.auth, "ok")>> ELSE <<>> IN
          /\ calls' = calls \o again \o <<Call("Mail", message.From, "ok")>>
          /\ sender' = [sender EXCEPT ![c] =
                [IdleSender EXCEPT !.msg = message, !.first = Len(calls) + Len(again) + 1, !.i = 1,
                    !.pc = IF Len(message.Recipients) = 0 THEN "data" ELSE "rcpt"]]

\* Mutant: the session is locked while a Send runs on it.
SendMail_Locked(c, msgs, limit) ==
    /\ pc = "idle"
    /\ result.kind = "session"
    /\ \A d \in Callers : sender[d].pc = "idle"
    /\ sends < limit
    /\ sends' = sends + 1
    /\ UNCHANGED connVars
    /\ \E message \in msgs :
          /\ calls' = Append(calls, Call("Mail", message.From, "ok"))
          /\ sender' = [sender EXCEPT ![c] =
                [IdleSender EXCEPT !.msg = message, !.first = Len(calls) + 1, !.i = 1,
                    !.pc = IF Len(message.Recipients) = 0 THEN "data" ELSE "rcpt"]]

\* The caller starts at most limit Sends on one session.
SendMail(c, msgs, limit) ==
    /\ pc = "idle"
    /\ result.kind = "session"
    /\ sender[c].pc = "idle"
    /\ sends < limit
    /\ sends' = sends + 1
    /\ UNCHANGED connVars
    /\ \E message \in msgs :
          \/ \E e \in Causes :
                /\ calls' = Append(calls, Call("Mail", message.From, e))
                /\ sender' = [sender EXCEPT ![c] =
                      [IdleSender EXCEPT !.msg = message, !.first = Len(calls) + 1, !.ret = ErrorResult(
                          ErrorfAddr("mailer failed to send MAIL command for address %s",
                                     message.From, Cause(e)))]]
          \/ /\ calls' = Append(calls, Call("Mail", message.From, "ok"))
             /\ sender' = [sender EXCEPT ![c] =
                   [IdleSender EXCEPT !.msg = message, !.first = Len(calls) + 1, !.i = 1,
                       !.pc = IF Len(message.Recipients) = 0 THEN "data" ELSE "rcpt"]]

\* Mutant: the loop over the recipients stops one element early.
SendRcpt_SkipLast(c) ==
    /\ sender[c].pc = "rcpt"
    /\ UNCHANGED <<connVars, sends>>
    /\ LET t == sender[c].msg.Recipients[sender[c].i] IN
          \/ \E e \in Causes :
                /\ calls' = Append(calls, Call("Rcpt", t, e))
                /\ SendReturn(c, ErrorResult(
                      ErrorfAddr("mailer failed to send rcpt command for address %s", t, Cause(e))))
          \/ /\ calls' = Append(calls, Call("Rcpt", t, "ok"))
             /\ sender' = [sender EXCEPT ![c].i = @ + 1,
                   ![c].pc = IF sender[c].i + 1 >= Len(sender[c].msg.Recipients) THEN "data" ELSE "rcpt"]

SendRcpt(c) ==
    /\ sender[c].pc = "rcpt"
    /\ UNCHANGED <<connVars, sends>>
    /\ LET t == sender[c].msg.Recipients[sender[c].i] IN
          \/ \E e \in Causes :
                /\ calls' = Append(calls, Call("Rcpt", t, e))
                /\ SendReturn(c, ErrorResult(
                      ErrorfAddr("mailer failed to send rcpt command for address %s", t, Cause(e))))
          \/ /\ calls' = Append(calls, Call("Rcpt", t, "ok"))
             /\ sender' = [sender EXCEPT ![c].i = @ + 1,
                   ![c].pc = IF sender[c].i = Len(sender[c].msg.Recipients) THEN "data" ELSE "rcpt"]

\* Mutant: the error of Data is ignored and the message is written.
SendData_IgnoreError(c) ==
    /\ sender[c].pc = "data"
    /\ UNCHANGED <<connVars, sends>>
    /\ \E r \in Causes \cup {"ok"} : calls' = Append(calls, Call("Data", "", r))
    /\ sender' = [sender EXCEPT ![c].pc = "write", ![c].w = "open"]

SendData(c) ==
    /\ sender[c].pc = "data"
    /\ UNCHANGED <<connVars, sends>>
    /\ \/ \E e \in Causes :
             /\ calls' = Append(calls, Call("Data", "", e))
             /\ SendReturn(c, ErrorResult(Errorf("mailer failed to get data writer", Cause(e))))
       \/ /\ calls' = Append(calls, Call("Data", "", "ok"))
          /\ sender' = [sender EXCEPT ![c].pc = "write", ![c].w = "open"]

\* Mutant: a failed Write returns at once, before the Close of the data
\* stream is deferred.
SendWrite_ReturnOnError(c) ==
    /\ sender[c].pc = "write"
    /\ UNCHANGED <<connVars, sends>>
    /\ \E keys \in KeyOrders(sender[c].msg.Headers) :
          LET encoded == Encode(sender[c].msg, keys) IN
          IF encoded.err # <<>>
          THEN /\ UNCHANGED calls
               /\ SendReturn(c, ErrorResult(Errorf("failed to send message", encoded.err)))
          ELSE \/ \E e \in Causes :
                     /\ calls' = Append(calls, Call("Write", encoded.bytes, <<0, e>>))
                     /\ SendReturn(c, ErrorResult(Errorf("failed writing data", Cause(e))))
               \/ \E n \in {0, Len(encoded.bytes)} :
                     /\ calls' = Append(calls, Call("Write", encoded.bytes, <<n, "ok">>))
                     /\ sender' = [sender EXCEPT ![c].pc = "close"]

\* message.Encode(), then w.Write(encodedMsg) and the registration of the
\* deferred w.Close().
SendWrite(c) ==
    /\ sender[c].pc = "write"
    /\ UNCHANGED <<connVars, sends>>
    /\ \E keys \in KeyOrders(sender[c].msg.Headers) :
          LET encoded == Encode(sender[c].msg, keys) IN
          IF encoded.err # <<>>
          THEN /\ UNCHANGED calls
               /\ SendReturn(c, ErrorResult(Errorf("failed to send message", encoded.err)))
          ELSE \/ \E e \in Causes :
                     /\ calls' = Append(calls, Call("Write", encoded.bytes, <<0, e>>))
                     /\ sender' = [sender EXCEPT ![c].pc = "close", ![c].werr = Cause(e)]
               \/ \E n \in {0, Len(encoded.bytes)} :
                     /\ calls' = Append(calls, Call("Write", encoded.bytes, <<n, "ok">>))
                     /\ sender' = [sender EXCEPT ![c].pc = "close"]

\* The deferred w.Close(), whose error is dropped, and the return.
SendClose(c) ==
    /\ sender[c].pc = "close"
    /\ UNCHANGED <<connVars, sends>>
    /\ \E r \in {"ok", "errClose"} : calls' = Append(calls, Call("w.Close", "", r))
    /\ sender' = [sender EXCEPT ![c].pc = "idle", ![c].w = "closed",
          ![c].ret = IF sender[c].werr # <<>>
                     THEN ErrorResult(Errorf("failed writing data", sender[c].werr))
                     ELSE NilResult]

\* The Mailers and servers of the runs that send, and the messages sent.
SendMailers ==
    {NewMailer(h, p, "user", pw, <<>>) : h \in Hosts, p \in Ports, pw \in Passwords}

SendServers ==
    {[starttls |-> TRUE, auth |-> TRUE, auths |-> plainAuthMechanism],
     [starttls |-> FALSE, auth |-> FALSE, auths |-> <<>>]}

RcptLists == UNION {[1..n -> {"a@x.com", "b@x.com"}] : n \in 0..MaxRcpt}

SendMessages ==
    {[NewMessage EXCEPT !.From = "from@x.com", !.Recipients = r, !.Cc = <<"c@x.com">>,
                        !.Bcc = <<"d@x.com">>, !.Subject = <<"h", "i">>,
                        !.Body = <<"y", "o">>] : r \in RcptLists}
    \cup {[NewMessage EXCEPT !.From = "from@x.com", !.Recipients = <<"a@x.com">>,
                             !.HTMLBody = <<"y", "o">>]}
    \cup {[NewMessage EXCEPT !.From = f, !.Recipients = <<"a@x.com", "invalid">>,
                             !.Cc = <<"c@x.com">>] : f \in {"", "from@x.com"}}

InitSend ==
    /\ mailer \in SendMailers
    /\ pc = "idle"
    /\ server = NoServer
    /\ conn = NoConn
    /\ calls = <<>>
    /\ result = NoResult
    /\ connects = 0
    /\ sender = [c \in Callers |-> IdleSender]
    /\ sends = 0
    /\ closes = NoCloses
    /\ once = IdleOnce
    /\ enc = NoEnc
    /\ login = NoLogin
    /\ applied = <<>>

NextSend ==
    \/ Dial
    \/ NewSmtpClient(SendServers)
    \/ Hello
    \/ StartTLS
    \/ SelectMechanism
    \/ Auth
    \/ SendMail(1, SendMessages, MaxSends)
    \/ SendRcpt(1)
    \/ SendData(1)
    \/ SendWrite(1)
    \/ SendClose(1)

SpecSend == InitSend /\ [][NextSend]_vars

----------------------------------------------------------------------------
(* mailSender.Close and the reuse of one session. *)

\* m.Quit() answers r; what Close returns.
CloseStep(r) ==
    /\ calls' = Append(calls, Call("Quit", "", r))
    /\ closes' = [n |-> closes.n + 1,
                  ret |-> IF r = "ok" THEN NilResult
                          ELSE ErrorResult(Errorf("failed to close connection to smtp server",
                                                  Cause(r)))]

\* Mutant: Close also closes the transport of the protocol handle.
Close_AlsoTransport(c) ==
    /\ pc = "idle"
    /\ result.kind = "session"
    /\ sender[c].pc = "idle"
    /\ closes.n < MaxCloses
    /\ \E r \in Causes \cup {"ok"} :
          /\ calls' = calls \o <<Call("Quit", "", r), Call("Close", "", "ok")>>
          /\ closes' = [n |-> closes.n + 1,
                        ret |-> IF r = "ok" THEN NilResult
                                ELSE ErrorResult(Errorf("failed to close connection to smtp server",
                                                        Cause(r)))]
    /\ UNCHANGED <<pureVars, mailer, pc, server, conn, result, connects, sender, sends, once>>

\* mailSender.Close, called by the holder of the session between Sends.
Close(c) ==
    /\ pc = "idle"
    /\ result.kind = "session"
    /\ sender[c].pc = "idle"
    /\ closes.n < MaxCloses
    /\ \E r \in Causes \cup {"ok"} : CloseStep(r)
    /\ UNCHANGED <<pureVars, mailer, pc, server, conn, result, connects, sender, sends, once>>

\* The Mailer, server and messages of the runs that reuse a session.
ReuseMailers ==
    {NewMailer(h, 587, "user", pw, <<[opt |-> "WithLocalName", str |-> "localhost",
                                      cfg |-> NilTLS, t |-> 0, a |-> NilAuth, b |-> FALSE]>>) :
        h \in Hosts, pw \in Passwords}

ReuseServers == {[starttls |-> TRUE, auth |-> TRUE, auths |-> plainAuthMechanism]}

ReuseMessages ==
    {[NewMessage EXCEPT !.From = f, !.Recipients = <<"a@x.com">>, !.Body = <<"y", "o">>] :
        f \in {"", "from@x.com"}}

InitReuse ==
    /\ mailer \in ReuseMailers
    /\ pc = "idle"
    /\ server = NoServer
    /\ conn = NoConn
    /\ calls = <<>>
    /\ result = NoResult
    /\ connects = 0
    /\ sender = [c \in Callers |-> IdleSender]
    /\ sends = 0
    /\ closes = NoCloses
    /\ once = IdleOnce
    /\ enc = NoEnc
    /\ login = NoLogin
    /\ applied = <<>>

NextReuse ==
    \/ Dial
    \/ NewSmtpClient(ReuseServers)
    \/ Hello
    \/ StartTLS
    \/ SelectMechanism
    \/ Auth
    \/ SendMail(1, ReuseMessages, MaxReuse)
    \/ SendRcpt(1)
    \/ SendData(1)
    \/ SendWrite(1)
    \/ SendClose(1)

SpecReuse == InitReuse /\ [][NextReuse]_vars

\* The holder of a session sends and closes in any order.
NextClose ==
    \/ Dial
    \/ NewSmtpClient(ReuseServers)
    \/ Hello
    \/ StartTLS
    \/ SelectMechanism
    \/ Auth
    \/ SendMail(1, ReuseMessages, MaxSends)
    \/ SendRcpt(1)
    \/ SendData(1)
    \/ SendWrite(1)
    \/ SendClose(1)
    \/ Close(1)

SpecClose == InitReuse /\ [][NextClose]_vars

----------------------------------------------------------------------------
(* Two callers sending on one session with no serialization between them. *)

ConcMessages ==
    {[NewMessage EXCEPT !.From = "from@x.com", !.Recipients = <<"a@x.com">>,
                        !.Body = <<"y", "o">>],
     [NewMessage EXCEPT !.From = "c@x.com", !.Recipients = <<"b@x.com", "d@x.com">>,
                        !.Body = <<"y", "o">>]}

\* Caller c calls Send on the session, once per session.
ConcSend(c) ==
    /\ sender[c].first = 0
    /\ SendMail(c, ConcMessages, MaxReuse)

NextConc ==
    \/ Dial
    \/ NewSmtpClient(ReuseServers)
    \/ Hello
    \/ StartTLS
    \/ SelectMechanism
    \/ Auth
    \/ \E c \in Callers : ConcSend(c)
    \/ \E c \in Callers : SendRcpt(c)
    \/ \E c \in Callers : SendData(c)
    \/ \E c \in Callers : SendWrite(c)
    \/ \E c \in Callers : SendClose(c)

SpecConc == InitReuse /\ [][NextConc]_vars

----------------------------------------------------------------------------
(* Mailer.Send: connect, send one message, close the session. *)

\* Mailer.Send is entered with a message.
MailerSend(msgs) ==
    /\ once.pc = "idle"
    /\ pc = "idle"
    /\ \A c \in Callers : sender[c].pc = "idle"
    /\ connects < MaxConnects
    /\ \E message \in msgs : once' = [pc |-> "connect", msg |-> message, ret |-> NoResult]
    /\ result' = NoResult
    /\ UNCHANGED <<pureVars, mailer, pc, server, conn, calls, connects, sender, sends, closes>>

\* m.ConnectAndAuthenticate() is called.
OnceConnect ==
    /\ once.pc = "connect"
    /\ result.kind = "none"
    /\ Dial

\* ConnectAndAuthenticate has returned: its error is wrapped and returned,
\* or the Close of the session is deferred.
OnceConnected ==
    /\ once.pc = "connect"
    /\ pc = "idle"
    /\ result.kind # "none"
    /\ once' = IF result.kind = "error"
               THEN [once EXCEPT !.pc = "idle", !.ret = ErrorResult(
                        Errorf("failed to connect and authenticate", result.err))]
               ELSE [once EXCEPT !.pc = "send"]
    /\ UNCHANGED <<pureVars, mailer, pc, server, conn, calls, result, connects, sender, sends, closes>>

\* sender.Send(message) is called.
OnceSend ==
    /\ once.pc = "send"
    /\ sender[1].first = 0
    /\ SendMail(1, {once.msg}, MaxSends)

\* Mutant: the session is closed only after a successful Send.
OnceClose_OnlyOnSuccess ==
    /\ once.pc = "send"
    /\ sender[1].pc = "idle"
    /\ sender[1].first # 0
    /\ IF sender[1].ret.kind = "error"
       THEN UNCHANGED <<calls, closes>>
       ELSE \E r \in Causes \cup {"ok"} : CloseStep(r)
    /\ once' = [once EXCEPT !.pc = "idle",
                   !.ret = IF sender[1].ret.kind = "error"
                           THEN ErrorResult(Errorf("failed to send message", sender[1].ret.err))
                           ELSE NilResult]
    /\ UNCHANGED <<pureVars, mailer, pc, server, conn, result, connects, sender, sends>>

\* Mutant: the error of the deferred Close is returned when Send succeeded.
OnceClose_SurfaceQuit ==
    /\ once.pc = "send"
    /\ sender[1].pc = "idle"
    /\ sender[1].first # 0
    /\ \E r \in Causes \cup {"ok"} : CloseStep(r)
    /\ once' = [once EXCEPT !.pc = "idle",
                   !.ret = IF sender[1].ret.kind = "error"
                           THEN ErrorResult(Errorf("failed to send message", sender[1].ret.err))
                           ELSE closes'.ret]
    /\ UNCHANGED <<pureVars, mailer, pc, server, conn, result, connects, sender, sends>>

\* sender.Send has returned: its error is wrapped and returned, or nil; the
\* deferred sender.Close() runs and its error is dropped.
OnceClose ==
    /\ once.pc = "send"
    /\ sender[1].pc = "idle"
    /\ sender[1].first # 0
    /\ \E r \in Causes \cup {"ok"} : CloseStep(r)
    /\ once' = [once EXCEPT !.pc = "idle",
                   !.ret = IF sender[1].ret.kind = "error"
                           THEN ErrorResult(Errorf("failed to send message", sender[1].ret.err))
                           ELSE NilResult]
    /\ UNCHANGED <<pureVars, mailer, pc, server, conn, result, connects, sender, sends>>

\* The messages handed to Mailer.Send.
OnceMessages == {m \in SendMessages : m.Subject = <<>>}

NextOnce ==
    \/ MailerSend(OnceMessages)
    \/ OnceConnect
    \/ NewSmtpClient(SendServers)
    \/ Hello
    \/ StartTLS
    \/ SelectMechanism
    \/ Auth
    \/ OnceConnected
    \/ OnceSend
    \/ SendRcpt(1)
    \/ SendData(1)
    \/ SendWrite(1)
    \/ SendClose(1)
    \/ OnceClose

SpecOnce == InitSend /\ [][NextOnce]_vars

----------------------------------------------------------------------------
(* Message.Encode and encode, applied to Messages of every shape. *)

\* A text longer than one line of maxLineLength characters.
LongText == [i \in 1..(maxLineLength + 2) |-> "x"]

EncAttachments ==
    {[Filename |-> "f1", Data |-> <<"b", "y", "t", "e", " ", "s", "t", "r">>,
      MIMEType |-> "application/pdf"],
     [Filename |-> "f2", Data |-> SubSeq(LongText, 1, 60), MIMEType |-> "text/plain"]}

AttLists == UNION {[1..n -> EncAttachments] : n \in 0..MaxAtt}

HeaderKeys == {"message-id", "x-tag", "reply-to"}

\* The values of an extra header.
HeaderValues(k) == IF k = "x-tag" THEN <<"t1", "t2">> ELSE <<"124">>

\* mail.Header maps of at most MaxHdrs keys.
HeaderMaps ==
    {[k \in K |-> HeaderValues(k)] : K \in {X \in SUBSET HeaderKeys : Cardinality(X) <= MaxHdrs}}

HTMLText == <<"<", "p", ">", "h", "i", "<", "/", "p", ">">>

\* Messages that pass or fail validation in every way.
EncAddressMessages ==
    {[NewMessage EXCEPT !.From = f, !.Recipients = r, !.Body = <<"y", "o">>] :
        f \in {"", "invalid", "from@x.com"},
        r \in RcptLists \cup {<<"invalid">>, <<"a@x.com", "invalid">>}}

\* Messages with every combination of address headers and extra headers.
EncHeaderMessages ==
    {[NewMessage EXCEPT !.From = "from@x.com", !.Recipients = r, !.Cc = cc, !.Bcc = bcc,
                        !.Headers = h, !.Subject = <<"h", "i">>,
                        !.Body = b, !.HTMLBody = html, !.Attachments = as] :
        r \in {<<>>, <<"a@x.com">>, <<"a@x.com", "b@x.com">>},
        cc \in {<<>>, <<"c@x.com", "d@x.com">>},
        bcc \in {<<>>, <<"d@x.com">>},
        h \in HeaderMaps,
        b \in {<<>>, <<"y", "o">>},
        html \in {<<>>, HTMLText},
        as \in {a \in AttLists : Len(a) <= 1 /\ \A i \in DOMAIN a : a[i].Filename = "f1"}}

\* Messages with every shape of content.
EncContentMessages ==
    {[NewMessage EXCEPT !.From = "from@x.com", !.Recipients = <<"a@x.com">>,
                        !.Headers = h, !.Subject = sub,
                        !.Body = b, !.HTMLBody = html, !.Attachments = as] :
        h \in {m \in HeaderMaps : Cardinality(DOMAIN m) <= 1 /\ DOMAIN m \subseteq {"x-tag"}},
        sub \in {<<>>, <<"h", "i">>},
        b \in {<<>>, <<"y", "o">>, LongText},
        html \in {<<>>, HTMLText},
        as \in AttLists}

\* Messages whose bodies hold the text of a boundary delimiter line.
BoundaryText == <<"-", "-", "B", "O", "U", "N", "D", "A", "R", "Y">>

AltBoundaryText == <<"-", "-", "A", "L", "T", "-", "B", "O", "U", "N", "D", "A", "R", "Y">>

EncBoundaryMessages ==
    {[NewMessage EXCEPT !.From = "from@x.com", !.Recipients = <<"a@x.com">>,
                        !.Body = b, !.HTMLBody = html, !.Attachments = as] :
        b \in {BoundaryText, AltBoundaryText},
        html \in {<<>>, AltBoundaryText \o <<"-", "-">>},
        as \in {a \in AttLists : Len(a) <= 1}}

EncMessages ==
    EncAddressMessages \cup EncHeaderMessages \cup EncContentMessages \cup EncBoundaryMessages

InitEncode ==
    /\ mailer \in SendMailers
    /\ pc = "idle"
    /\ server = NoServer
    /\ conn = NoConn
    /\ calls = <<>>
    /\ result = NoResult
    /\ connects = 0
    /\ sender = [c \in Callers |-> IdleSender]
    /\ sends = 0
    /\ closes = NoCloses
    /\ once = IdleOnce
    /\ enc \in {[msg |-> m, outs |-> <<>>] : m \in EncMessages}
    /\ login = NoLogin
    /\ applied = <<>>

encodeVars ==
    <<mailer, pc, server, conn, calls, result, connects, sender, sends, closes, once, login, applied>>

\* m.Encode() is called; the map of extra headers is ranged over in some
\* order.
EncodeMessage ==
    /\ Len(enc.outs) < MaxEncodes
    /\ \E keys \in KeyOrders(enc.msg.Headers) :
          enc' = [enc EXCEPT !.outs = Append(@, [fn |-> "Encode", ret |-> Encode(enc.msg, keys)])]
    /\ UNCHANGED encodeVars

\* encode(m) is called without validation, as the tests of the package do.
EncodeRaw ==
    /\ Len(enc.outs) < MaxEncodes
    /\ \E keys \in KeyOrders(enc.msg.Headers) :
          enc' = [enc EXCEPT !.outs = Append(@,
                    [fn |-> "encode", ret |-> [bytes |-> encode(enc.msg, keys), err |-> <<>>]])]
    /\ UNCHANGED encodeVars

NextEncode ==
    \/ EncodeMessage
    \/ EncodeRaw

SpecEncode == InitEncode /\ [][NextEncode]_vars

----------------------------------------------------------------------------
(* The LOGIN authenticator on its own. *)

loginAuthUsername == "Username:"

loginAuthPassword == "Password:"

\* A byte slice: nil, or the bytes of a string (possibly none).
NilSlice == [nil |-> TRUE, bytes |-> ""]

Data(str) == [nil |-> FALSE, bytes |-> str]

\* fmt.Errorf("<msg>: %s", str); the formatted value is kept in addr.
ErrorfStr(msg, str) == <<[text |-> msg, addr |-> str]>>

\* loginAuth.Start
loginAuthStart(a) ==
    [proto |-> loginAuthMechanism, toServer |-> Data(""), err |-> <<>>]

\* Mutant: every challenge is answered with the password.
loginAuthNext_AnyChallenge(a, fromServer, more) ==
    IF more
    THEN IF fromServer = loginAuthUsername
         THEN [toServer |-> Data(a.username), err |-> <<>>]
         ELSE [toServer |-> Data(a.secret), err |-> <<>>]
    ELSE [toServer |-> NilSlice, err |-> <<>>]

\* loginAuth.Next
loginAuthNext(a, fromServer, more) ==
    IF more
    THEN IF fromServer = loginAuthUsername
         THEN [toServer |-> Data(a.username), err |-> <<>>]
         ELSE IF fromServer = loginAuthPassword
         THEN [toServer |-> Data(a.secret), err |-> <<>>]
         ELSE [toServer |-> NilSlice,
               err |-> ErrorfStr("unexpected server challange", fromServer)]
    ELSE [toServer |-> NilSlice, err |-> <<>>]

\* The credentials an authenticator is built from and the challenges a
\* server sends.
LoginUsers == {"user", "Password:"}

LoginPasswords == {"pass", ""}

Challenges == {"Username:", "Password:", "username:", ""}

InitLogin ==
    /\ mailer \in SendMailers
    /\ pc = "idle"
    /\ server = NoServer
    /\ conn = NoConn
    /\ calls = <<>>
    /\ result = NoResult
    /\ connects = 0
    /\ sender = [c \in Callers |-> IdleSender]
    /\ sends = 0
    /\ closes = NoCloses
    /\ once = IdleOnce
    /\ enc = NoEnc
    /\ login \in {[auth |-> newSmtpLoginAuth(u, p), log |-> <<>>] :
                    u \in LoginUsers, p \in LoginPasswords}
    /\ applied = <<>>

loginVars ==
    <<mailer, pc, server, conn, calls, result, connects, sender, sends, closes, once, enc, applied>>

\* a.Start(server) is called.
LoginStart ==
    /\ Len(login.log) < MaxChallenges
    /\ login' = [login EXCEPT !.log = Append(@,
                    [fn |-> "Start", fromServer |-> "", more |-> FALSE,
                     ret |-> loginAuthStart(login.auth)])]
    /\ UNCHANGED loginVars

\* a.Next(fromServer, more) is called.
LoginNext ==
    /\ Len(login.log) < MaxChallenges
    /\ \E fromServer \in Challenges, more \in BOOLEAN :
          login' = [login EXCEPT !.log = Append(@,
                      [fn |-> "Next", fromServer |-> fromServer, more |-> more,
                       ret |-> loginAuthNext(login.auth, fromServer, more)])]
    /\ UNCHANGED loginVars

NextLogin ==
    \/ LoginStart
    \/ LoginNext

SpecLogin == InitLogin /\ [][NextLogin]_vars

----------------------------------------------------------------------------
(* NewMailer, one action per option it applies. *)

\* The options a caller may pass, a negative timeout among them.
BuildOptions ==
    Options
    \cup {[opt |-> "WithDialTimeout", str |-> "", cfg |-> NilTLS, t |-> 0 - 1, a |-> NilAuth,
           b |-> FALSE]}

InitOptions ==
    /\ mailer \in {NewMailer(h, p, u, pw, <<>>) :
                     h \in Hosts, p \in Ports, u \in Usernames, pw \in Passwords}
    /\ pc = "idle"
    /\ server = NoServer
    /\ conn = NoConn
    /\ calls = <<>>
    /\ result = NoResult
    /\ connects = 0
    /\ sender = [c \in Callers |-> IdleSender]
    /\ sends = 0
    /\ closes = NoCloses
    /\ once = IdleOnce
    /\ enc = NoEnc
    /\ login = NoLogin
    /\ applied = <<>>

\* opt(mailer) for the next option of the list.
ApplyOpt ==
    /\ Len(applied) < MaxOpts
    /\ \E o \in BuildOptions :
          /\ mailer' = ApplyOption(o, mailer)
          /\ applied' = Append(applied, [opt |-> o, before |-> mailer, after |-> mailer'])
    /\ UNCHANGED <<pc, server, conn, calls, result, connects, sender, sends, closes, once,
                   enc, login>>

NextOptions == ApplyOpt

SpecOptions == InitOptions /\ [][NextOptions]_vars

----------------------------------------------------------------------------
(* The helpers of the encoder on their own, applied to the texts of a      *)
(* message.                                                                *)

\* The characters of the texts and the texts of up to MaxText characters,
\* with the text of the package's own tests.
TextChars == {"a", "~", "0"}

Texts ==
    UNION {[1..n -> TextChars] : n \in 0..MaxText} \cup {<<"i", "n", "p", "u", "t">>}

InitHelpers ==
    /\ mailer \in SendMailers
    /\ pc = "idle"
    /\ server = NoServer
    /\ conn = NoConn
    /\ calls = <<>>
    /\ result = NoResult
    /\ connects = 0
    /\ sender = [c \in Callers |-> IdleSender]
    /\ sends = 0
    /\ closes = NoCloses
    /\ once = IdleOnce
    /\ enc \in {[msg |-> [NewMessage EXCEPT !.Body = t, !.Subject = t], outs |-> <<>>] :
                  t \in Texts}
    /\ login = NoLogin
    /\ applied = <<>>

\* splitLines(m.Body, maxLength) is called.
SplitLines ==
    /\ Len(enc.outs) < MaxEncodes
    /\ \E maxLength \in 1..MaxChunk :
          enc' = [enc EXCEPT !.outs = Append(@,
                    [fn |-> "splitLines", input |-> enc.msg.Body, maxLength |-> maxLength,
                     ret |-> splitLines(enc.msg.Body, maxLength)])]
    /\ UNCHANGED encodeVars

\* encodeBase64(m.Subject) is called.
EncodeBase64 ==
    /\ Len(enc.outs) < MaxEncodes
    /\ enc' = [enc EXCEPT !.outs = Append(@,
                 [fn |-> "encodeBase64", input |-> enc.msg.Subject, maxLength |-> 0,
                  ret |-> encodeBase64(enc.msg.Subject)])]
    /\ UNCHANGED encodeVars

NextHelpers ==
    \/ SplitLines
    \/ EncodeBase64

SpecHelpers == InitHelpers /\ [][NextHelpers]_vars

----------------------------------------------------------------------------
(* Observations on the record of calls. *)

Indices(op) == {i \in DOMAIN calls : calls[i].op = op}

Count(op) == Cardinality(Indices(op))

Queries(ext) == {i \in Indices("Extension") : calls[i].arg = ext}

\* Calls whose answer is "ok" or a cause (every call but Extension).
Failures(ops) == {i \in DOMAIN calls : calls[i].op \in ops /\ calls[i].ret # "ok"}

Returned == pc = "idle" /\ result.kind # "none"

ReturnedSession == pc = "idle" /\ result.kind = "session"

\* The running or last call got past the STARTTLS step.
PastStartTLS ==
    \/ pc \in {"secured", "selected"}
    \/ ReturnedSession
    \/ Indices("Auth") # {}

\* The place of a call in the order of the negotiation.
Rank(c) ==
    CASE c.op = "netDialTimeout" -> 1
      [] c.op = "tlsClient" -> 2
      [] c.op = "newSmtpClient" -> 3
      [] c.op = "Hello" -> 4
      [] c.op = "Extension" -> IF c.arg = StartTLSExt THEN 5 ELSE 7
      [] c.op = "StartTLS" -> 6
      [] c.op = "Auth" -> 8
      [] c.op = "Close" -> 9

\* The mechanism the priority CRAM-MD5 > PLAIN > LOGIN picks from an
\* advertised AUTH value.
Preferred(auths) ==
    IF Contains(auths, crmAuthMechanism) THEN "CRAM-MD5"
    ELSE IF Contains(auths, plainAuthMechanism) THEN "PLAIN"
    ELSE "LOGIN"

----------------------------------------------------------------------------
(* Claims. *)

\* C1: if StartTLS or Auth fails, Close of the protocol handle is called
\* exactly once, after the failing call and before the return, and the call
\* returns an error and no session.
C1_CloseOnceOnHandshakeFailure ==
    \A i \in Failures({"StartTLS", "Auth"}) :
        /\ Count("Close") = 1
        /\ i + 1 = Len(calls)
        /\ calls[i + 1].op = "Close"
        /\ conn.state = "closed"
        /\ Returned
        /\ result.kind = "error"
        /\ Tail(result.err) = Cause(calls[i].ret)

C1_Witness ==
    /\ Failures({"StartTLS"}) # {}
    /\ Count("Close") = 1
    /\ Returned

\* C2: on a connection wrapped in implicit TLS (port 465) the STARTTLS
\* extension is never queried and StartTLS is never issued.
C2_NoStartTLSOnImplicitTLS ==
    mailer.Port = sslPort => Queries(StartTLSExt) = {} /\ Indices("StartTLS") = {}

\* C3: when the port is not 465 and the server advertises STARTTLS, StartTLS
\* is issued, and before any Auth exchange, whatever the options.
C3_StartTLSWhenAdvertised ==
    (mailer.Port # sslPort /\ server.starttls /\ PastStartTLS) =>
        /\ Indices("StartTLS") # {}
        /\ \A i \in Indices("StartTLS"), j \in Indices("Auth") : i < j

C5_MechanismPriority ==
    \A q \in Queries(AuthExt) :
        calls[q].ret[1] =>
            /\ mailer.auth.kind = Preferred(calls[q].ret[2])
            /\ mailer.auth.username = mailer.Username
            /\ mailer.auth.secret =
                  (IF mailer.auth.kind = "CRAM-MD5" THEN mailer.secrets ELSE mailer.Password)
            /\ mailer.auth.host = (IF mailer.auth.kind = "PLAIN" THEN mailer.Host ELSE "")
            /\ \A a \in Indices("Auth") : calls[a].arg = mailer.auth

C5_Witness ==
    /\ ReturnedSession
    /\ \E q \in Queries(AuthExt) :
          /\ calls[q].ret[1]
          /\ Contains(calls[q].ret[2], plainAuthMechanism)
          /\ Contains(calls[q].ret[2], crmAuthMechanism)
    /\ \E a \in Indices("Auth") : calls[a].arg.kind = "CRAM-MD5"

\* C6: the calls of one negotiation occur in the order dial, client
\* construction, Hello, STARTTLS query, StartTLS, AUTH query, Auth, each at
\* most once; Hello is sent iff a local name is configured (once the client
\* exists) and before any extension query.
C6_NegotiationOrder ==
    /\ \A i, j \in DOMAIN calls : i < j => Rank(calls[i]) < Rank(calls[j])
    /\ Indices("Hello") # {} => mailer.localName # ""
    /\ (mailer.localName # "" /\ (pc \in {"greeted", "secured", "selected"} \/ ReturnedSession))
          => Count("Hello") = 1
    /\ \A h \in Indices("Hello") : calls[h].arg = mailer.localName

C6_Witness ==
    /\ ReturnedSession
    /\ Len(calls) = 7
    /\ Count("Hello") = 1
    /\ Count("StartTLS") = 1
    /\ Count("Auth") = 1

\* C7: if the dial, the client construction or the greeting fails, the call
\* returns an error wrapping the cause and no session, and the failing call
\* is the last one made.
C7_EarlyFailureAborts ==
    \A i \in Failures({"netDialTimeout", "newSmtpClient", "Hello"}) :
        /\ i = Len(calls)
        /\ Returned
        /\ result.kind = "error"
        /\ Tail(result.err) = Cause(calls[i].ret)

C7_Witness ==
    /\ Failures({"Hello"}) # {}
    /\ Returned
    /\ result.kind = "error"

\* C8: with an authenticator supplied by WithAuth the AUTH capability is
\* never queried and exactly that authenticator is passed to Auth; with
\* neither authenticator nor username no Auth is attempted and, no earlier
\* step having failed, a session is returned.
C8_ExplicitOrNoAuthenticator ==
    /\ mailer.auth.kind = "custom" =>
          /\ Queries(AuthExt) = {}
          /\ \A a \in Indices("Auth") : calls[a].arg = CustomAuth
          /\ ReturnedSession => Count("Auth") = 1
    /\ (mailer.auth.kind = "nil" /\ mailer.Username = "") =>
          /\ Queries(AuthExt) = {}
          /\ Indices("Auth") = {}
          /\ (Returned /\ Failures({"netDialTimeout", "newSmtpClient", "Hello", "StartTLS"}) = {})
                => result.kind = "session"

C8_Witness ==
    /\ ReturnedSession
    /\ mailer.auth.kind = "custom"
    /\ \E a \in Indices("Auth") : calls[a].arg = CustomAuth

\* C9: ConnectAndAuthenticate leaves every field of the Mailer unchanged.
C9_MailerUnchanged == [][mailer' = mailer]_vars

\* The calls made so far by the Send of caller c, as <<operation, argument>>.
SendCalls(c) ==
    IF sender[c].first = 0 THEN <<>>
    ELSE [i \in 1..(Len(calls) - sender[c].first + 1) |->
             <<calls[sender[c].first + i - 1].op, calls[sender[c].first + i - 1].arg>>]

Range(s) == {s[i] : i \in DOMAIN s}

IsPrefix(s, t) == Len(s) <= Len(t) /\ s = SubSeq(t, 1, Len(s))

\* MAIL, one RCPT per recipient in list order, DATA, one Write of the
\* encoding of message m, Close of the data stream.
Transaction(m, bytes) ==
    <<<<"Mail", m.From>>>>
    \o [i \in DOMAIN m.Recipients |-> <<"Rcpt", m.Recipients[i]>>]
    \o <<<<"Data", "">>, <<"Write", bytes>>, <<"w.Close", "">>>>

\* C10: Send issues MAIL with From, then one RCPT per element of Recipients
\* in list order, then DATA, then one Write of the encoded message, then
\* Close of the data stream: the calls of a Send are always a prefix of that
\* transaction and are all of it when Send succeeds; no address that is only
\* in Cc or Bcc is submitted with RCPT.
C10_SendTransaction ==
    LET m == sender[1].msg
        sc == SendCalls(1)
    IN  /\ \E keys \in KeyOrders(m.Headers) : IsPrefix(sc, Transaction(m, encode(m, keys)))
        /\ sender[1].ret.kind = "nil" =>
              /\ \E keys \in KeyOrders(m.Headers) : sc = Transaction(m, encode(m, keys))
              /\ sender[1].w = "closed"
        /\ \A i \in DOMAIN sc :
              sc[i][1] = "Rcpt" => sc[i][2] \notin (Range(m.Cc) \cup Range(m.Bcc)) \ Range(m.Recipients)

C10_Witness ==
    /\ sender[1].ret.kind = "nil"
    /\ sender[1].msg.Recipients = <<"b@x.com", "a@x.com">>
    /\ sender[1].msg.Cc # <<>>
    /\ sender[1].msg.Bcc # <<>>
    /\ Len(SendCalls(1)) = 6

\* The places in calls of the calls made by the running or last Send of
\* caller c.
SendIdx(c) == {i \in DOMAIN calls : sender[c].first > 0 /\ i >= sender[c].first}

SendOps(c, ops) == {i \in SendIdx(c) : calls[i].op \in ops}

\* The Send of caller c has returned.
SendReturned(c) == sender[c].pc = "idle" /\ sender[c].ret.kind # "none"

\* The message of the error Send returns when the step op fails.
StepError(op) ==
    CASE op = "Mail" -> "mailer failed to send MAIL command for address %s"
      [] op = "Rcpt" -> "mailer failed to send rcpt command for address %s"
      [] op = "Data" -> "mailer failed to get data writer"

\* C11: in mailSender.Send the first failing step aborts the operation: a
\* failed MAIL, RCPT or DATA is the last call of the Send, which returns the
\* error of that step wrapping the cause; no data stream is written to, and
\* no step is issued more often than the transaction has it.
C11_FirstFailureAborts ==
    /\ \A i \in SendOps(1, {"Mail", "Rcpt", "Data"}) :
          calls[i].ret # "ok" =>
              /\ i = Len(calls)
              /\ SendReturned(1)
              /\ sender[1].ret.kind = "error"
              /\ Head(sender[1].ret.err).text = StepError(calls[i].op)
              /\ Tail(sender[1].ret.err) = Cause(calls[i].ret)
              /\ sender[1].w = "none"
    /\ Cardinality(SendOps(1, {"Mail"})) <= 1
    /\ Cardinality(SendOps(1, {"Data"})) <= 1
    /\ Cardinality(SendOps(1, {"Rcpt"})) <= Len(sender[1].msg.Recipients)

C11_Witness ==
    /\ SendReturned(1)
    /\ Len(sender[1].msg.Recipients) = 2
    /\ Cardinality(SendOps(1, {"Rcpt"})) = 1
    /\ calls[Len(calls)].op = "Rcpt"
    /\ calls[Len(calls)].ret = "errA"

\* C12: when the message fails validation after the data stream has been
\* opened, Send returns the encoding error and the opened data stream is
\* closed: no Send returns leaving its data stream open.
C12_StreamClosedOnEncodingFailure ==
    SendReturned(1) => sender[1].w # "open"

\* C13: if the Write of the encoded message succeeds and the Close of the
\* data stream fails, Send returns an error.
C13_CloseErrorSurfaced ==
    (/\ SendReturned(1)
     /\ \E i \in SendOps(1, {"w.Close"}) : calls[i].ret # "ok"
     /\ \A i \in SendOps(1, {"Write"}) : calls[i].ret[2] = "ok")
        => sender[1].ret.kind = "error"

\* C14: once the data stream has been written to, Send closes it exactly
\* once, after the Write, whether the Write succeeded or failed, and after a
\* failed Write the returned error is the write error.
C14_CloseOnceAfterWrite ==
    \A i \in SendOps(1, {"Write"}) :
        /\ Cardinality(SendOps(1, {"w.Close"})) <= 1
        /\ \A j \in SendOps(1, {"w.Close"}) : j = i + 1
        /\ SendReturned(1) =>
              /\ Cardinality(SendOps(1, {"w.Close"})) = 1
              /\ sender[1].w = "closed"
              /\ calls[i].ret[2] # "ok" =>
                    sender[1].ret = ErrorResult(Errorf("failed writing data", Cause(calls[i].ret[2])))

C14_Witness ==
    /\ SendReturned(1)
    /\ \E i \in SendOps(1, {"Write"}) : calls[i].ret[2] = "errB"
    /\ \E j \in SendOps(1, {"w.Close"}) : calls[j].ret = "errClose"
    /\ sender[1].ret.kind = "error"

\* C15: Send returns an error whenever the data writer reports fewer bytes
\* written than the length of the encoded message, also when the writer
\* reports no error.
C15_ShortWriteIsError ==
    (/\ SendReturned(1)
     /\ \E i \in SendOps(1, {"Write"}) : calls[i].ret[1] < Len(calls[i].arg))
        => sender[1].ret.kind = "error"

\* Mailer.Send has returned.
OnceReturned == once.pc = "idle" /\ once.ret.kind # "none"

\* Mailer.Send has been entered and has made no call yet.
OnceEntered == once.pc = "connect" /\ result.kind = "none"

\* C16: Mailer.Send issues Quit exactly once whenever ConnectAndAuthenticate
\* succeeded, whether the Send on the session succeeded or failed, as its
\* last call, after the Send has returned; it issues no Quit when connecting
\* failed.
C16_QuitOnceIffConnected ==
    ~OnceEntered =>
        /\ Count("Quit") <= 1
        /\ \A q \in Indices("Quit") :
              /\ q = Len(calls)
              /\ OnceReturned
              /\ SendReturned(1)
        /\ OnceReturned => (result.kind = "session" <=> Count("Quit") = 1)

C16_Witness ==
    /\ OnceReturned
    /\ result.kind = "session"
    /\ sender[1].ret.kind = "error"
    /\ Count("Quit") = 1

\* C17: Mailer.Send returns the wrapped connect error, having attempted no
\* send, if connecting fails; otherwise the wrapped send error if sending
\* fails; otherwise nil.  A failure of the closing Quit never changes the
\* returned value.
C17_OnceReturnsFirstError ==
    OnceReturned =>
        /\ once.ret =
              (IF result.kind = "error"
               THEN ErrorResult(Errorf("failed to connect and authenticate", result.err))
               ELSE IF sender[1].ret.kind = "error"
               THEN ErrorResult(Errorf("failed to send message", sender[1].ret.err))
               ELSE NilResult)
        /\ result.kind = "error" => sender[1].first = 0 /\ Indices("Mail") = {}

C17_Witness ==
    /\ OnceReturned
    /\ once.ret = NilResult
    /\ calls[Len(calls)].op = "Quit"
    /\ calls[Len(calls)].ret = "errB"

\* C18: once mailSender.Close has been called, a later Send on the same
\* session issues no MAIL, RCPT or DATA and does not report success.
C18_NoSendAfterClose ==
    \A q \in Indices("Quit") :
        /\ \A i \in DOMAIN calls : i > q => calls[i].op \notin {"Mail", "Rcpt", "Data"}
        /\ sender[1].first > q => sender[1].ret.kind # "nil"

\* The calls of the negotiation.
HandshakeOps ==
    {"netDialTimeout", "tlsClient", "newSmtpClient", "Hello", "Extension", "StartTLS", "Auth"}

\* C19: on one session obtained from ConnectAndAuthenticate every Send
\* issues its own MAIL, and every successful one its own whole transaction,
\* while the dial, the client construction, Hello, StartTLS and Auth are
\* performed exactly once, all before the first MAIL.
C19_HandshakeOnceSendsMany ==
    ReturnedSession =>
        /\ \A op \in {"netDialTimeout", "newSmtpClient", "Hello", "StartTLS", "Auth"} :
              Count(op) = 1
        /\ \A h \in DOMAIN calls, m \in Indices("Mail") : calls[h].op \in HandshakeOps => h < m
        /\ Count("Mail") = sends
        /\ sender[1].ret.kind = "nil" =>
              \E keys \in KeyOrders(sender[1].msg.Headers) :
                  SendCalls(1) = Transaction(sender[1].msg, encode(sender[1].msg, keys))
        /\ sender[1].pc = "idle" => Count("Write") = Count("w.Close")

C19_Witness ==
    /\ ReturnedSession
    /\ sends = 2
    /\ sender[1].ret.kind = "nil"
    /\ Count("Data") = 2
    /\ Count("w.Close") = 2
    /\ Failures({"Data"}) = {}
    /\ \A i \in Indices("Write") : calls[i].ret[2] = "ok"
    /\ Count("Auth") = 1

\* C20: every call of mailSender.Close issues Quit exactly once, returns
\* the wrapped error of Quit if Quit fails and nil otherwise, and the
\* transport-level Close of the protocol handle is never invoked.
C20_CloseIssuesQuitOnce ==
    /\ Count("Quit") = closes.n
    /\ closes.n > 0 =>
          LET q == CHOOSE i \in Indices("Quit") : \A j \in Indices("Quit") : j <= i IN
          closes.ret =
              (IF calls[q].ret = "ok" THEN NilResult
               ELSE ErrorResult(Errorf("failed to close connection to smtp server",
                                       Cause(calls[q].ret))))
    /\ Indices("Quit") # {} => Count("Close") = 0

C20_Witness ==
    /\ closes.n = 2
    /\ closes.ret.kind = "error"
    /\ calls[Len(calls)].op = "Quit"
    /\ calls[Len(calls)].ret = "errA"
    /\ \E i \in Indices("Quit") : calls[i].ret = "ok"

\* C21: a session has no internal locking: a caller may start a Send on a
\* returned session whatever the position of the other caller's Send, and
\* every step of a running Send may be taken whatever the other caller
\* does, so the commands of two messages can be intermixed on the
\* connection.
C21_NoInternalLocking ==
    \A c \in Callers :
        /\ (ReturnedSession /\ sender[c].pc = "idle" /\ sends < MaxReuse)
              => ENABLED SendMail(c, ConcMessages, MaxReuse)
        /\ sender[c].pc = "rcpt" => ENABLED SendRcpt(c)
        /\ sender[c].pc = "data" => ENABLED SendData(c)
        /\ sender[c].pc = "write" => ENABLED SendWrite(c)
        /\ sender[c].pc = "close" => ENABLED SendClose(c)

\* The MAIL of caller 1, then the MAIL of caller 2, then a RCPT of caller
\* 1's message inside the transaction of caller 2.
C21_Witness ==
    /\ sender[1].pc # "idle"
    /\ sender[2].pc = "rcpt"
    /\ sender[1].msg.From # sender[2].msg.From
    /\ \E i \in DOMAIN calls :
          /\ i + 2 <= Len(calls)
          /\ calls[i].op = "Mail"
          /\ calls[i].arg = sender[1].msg.From
          /\ calls[i + 1].op = "Mail"
          /\ calls[i + 1].arg = sender[2].msg.From
          /\ calls[i + 2].op = "Rcpt"
          /\ calls[i + 2].arg \in Range(sender[1].msg.Recipients)
          /\ calls[i + 2].arg \notin Range(sender[2].msg.Recipients)

\* The returns of the Message.Encode calls made so far.
Encoded == {enc.outs[i].ret : i \in {j \in DOMAIN enc.outs : enc.outs[j].fn = "Encode"}}

\* The outputs produced so far, by Encode or by encode.
Outputs == {enc.outs[i].ret.bytes : i \in {j \in DOMAIN enc.outs : enc.outs[j].ret.err = <<>>}}

\* C22: Message.Encode succeeds if and only if From is non-empty and
\* parseable, Recipients is non-empty and every recipient is parseable; on
\* success the output starts with "MIME-Version: 1.0\r\n", on failure no
\* bytes are returned.
C22_EncodeIffValid ==
    \A o \in Encoded :
        LET m == enc.msg
            valid == /\ m.From # ""
                     /\ ParseAddress(m.From) = <<>>
                     /\ Len(m.Recipients) > 0
                     /\ \A i \in DOMAIN m.Recipients : ParseAddress(m.Recipients[i]) = <<>>
        IN  /\ o.err = <<>> <=> valid
            /\ o.err = <<>> => IsPrefix(<<"MIME-Version: 1.0", "\r\n">>, o.bytes)
            /\ o.err # <<>> => o.bytes = <<>>

C22_Witness ==
    /\ enc.msg.From = "from@x.com"
    /\ enc.msg.Recipients = <<>>
    /\ \E o \in Encoded : o.err # <<>> /\ o.bytes = <<>>

\* C23: two encodings of the same Message are byte-identical, also for a
\* Message with two or more extra headers.
C23_EncodeDeterministic ==
    \A i, j \in DOMAIN enc.outs :
        enc.outs[i].fn = enc.outs[j].fn => enc.outs[i].ret = enc.outs[j].ret

\* C24: every validation failure names the failing field, and every
\* address-parse failure, of From as of a recipient, carries the offending
\* address in the returned error.
C24_ValidationErrorNamesAddress ==
    \A o \in Encoded :
        LET m == enc.msg
            bad == FirstBadRecipient(m.Recipients, 1)
        IN  o.err # <<>> =>
                /\ Len(o.err) >= 2
                /\ o.err[2].text \in {"from address cannot be empty", "invalid from address",
                                      "recipients cannot be empty slice",
                                      "given %s is invalid recipient email"}
                /\ (m.From # "" /\ ParseAddress(m.From) # <<>>) =>
                      \E k \in DOMAIN o.err : o.err[k].addr = m.From
                /\ (m.From # "" /\ ParseAddress(m.From) = <<>> /\ bad # 0) =>
                      \E k \in DOMAIN o.err : o.err[k].addr = m.Recipients[bad]

\* Reading an output: the piece from i to j and the atom at i, empty
\* outside the output.
Sub(bs, i, j) == IF 1 <= i /\ j <= Len(bs) THEN SubSeq(bs, i, j) ELSE <<>>

At(bs, i) == IF i \in DOMAIN bs THEN bs[i] ELSE ""

\* The places where pat occurs in bs.
Occur(bs, pat) ==
    {i \in 1..(Len(bs) - Len(pat) + 1) :
        bs[i] = pat[1] /\ SubSeq(bs, i, i + Len(pat) - 1) = pat}

\* The k-th smallest element of a set of places.
Nth(S, k) == CHOOSE i \in S : Cardinality({j \in S : j < i}) = k - 1

\* The place of the line end that is followed by the empty line closing the
\* headers.
HeaderEnd(bs) ==
    CHOOSE i \in 1..(Len(bs) - 1) :
        /\ bs[i] = "\r\n" /\ bs[i + 1] = "\r\n"
        /\ \A j \in 1..(i - 1) : ~(bs[j] = "\r\n" /\ bs[j + 1] = "\r\n")

\* A boundary delimiter line, opening a part or terminating the envelope.
Opening(b) == <<"--">> \o b \o <<"\r\n">>

Terminating(b) == <<"--">> \o b \o <<"--", "\r\n">>

\* The Content-Type the decision table gives message m.
TopContentType(m) ==
    IF Len(m.Attachments) > 0 THEN <<"multipart/mixed; boundary=", "BOUNDARY">>
    ELSE IF m.Body # <<>> /\ m.HTMLBody # <<>>
    THEN <<"multipart/alternative; boundary=", "ALT-BOUNDARY">>
    ELSE IF m.HTMLBody # <<>> THEN <<"text/html; charset=UTF-8">>
    ELSE <<"text/plain; charset=us-ascii">>

C26_AlternativeEnvelope ==
    \A bs \in Outputs :
        LET m == enc.msg
            opens == Occur(bs, Opening(<<"ALT-BOUNDARY">>))
            ends == Occur(bs, Terminating(<<"ALT-BOUNDARY">>))
        IN  (m.Body # <<>> /\ m.HTMLBody # <<>> /\ m.Attachments = <<>>) =>
                /\ Cardinality(opens) = 2
                /\ Cardinality(ends) = 1
                /\ \A o \in opens : o > HeaderEnd(bs)
                /\ \A t \in ends :
                      /\ t + 3 = Len(bs)
                      /\ \A o \in opens : o < t
                      /\ Sub(bs, t - Len(m.HTMLBody) - 1, t - 2) = m.HTMLBody
                /\ Sub(bs, Nth(opens, 1) + 3, Nth(opens, 1) + 4)
                      = <<"Content-Type: ", "text/plain; charset=us-ascii">>
                /\ At(bs, Nth(opens, 1) + 9) = m.Body[1]
                /\ Sub(bs, Nth(opens, 2) + 3, Nth(opens, 2) + 4)
                      = <<"Content-Type: ", "text/html; charset=UTF-8">>
                /\ Occur(bs, Opening(<<"BOUNDARY">>)) = {}
                /\ Occur(bs, Terminating(<<"BOUNDARY">>)) = {}

C26_Witness ==
    /\ Outputs # {}
    /\ enc.msg.Body = LongText
    /\ enc.msg.HTMLBody # <<>>
    /\ enc.msg.Attachments = <<>>

\* C27: for a message with n >= 1 attachments the output holds exactly one
\* attachment part per attachment, in list order, each opened by its own
\* boundary, and ends with exactly one terminating "--BOUNDARY--\r\n" after
\* all parts.
C27_AttachmentParts ==
    \A bs \in Outputs :
        LET as == enc.msg.Attachments
            n == Len(as)
            opens == Occur(bs, Opening(<<"BOUNDARY">>))
            ends == Occur(bs, Terminating(<<"BOUNDARY">>))
            named == {i \in DOMAIN bs : bs[i] = "Content-Disposition: attachment; filename=\""}
        IN  n >= 1 =>
                /\ Cardinality(named) = n
                /\ Cardinality(opens) = n + 1
                /\ Cardinality(ends) = 1
                /\ \A t \in ends : t + 3 = Len(bs) /\ \A o \in opens : o < t
                /\ \A k \in 1..n :
                      /\ At(bs, Nth(named, k) + 1) = as[k].Filename
                      /\ Sub(bs, Nth(opens, k + 1) + 3, Nth(opens, k + 1) + 7)
                            = <<"Content-Type: ", as[k].MIMEType, "; name=\"", as[k].Filename, "\"">>
                      /\ Nth(opens, k + 1) < Nth(named, k)
                      /\ k < n => Nth(named, k) < Nth(opens, k + 2)

C27_Witness ==
    /\ Outputs # {}
    /\ Len(enc.msg.Attachments) = 2
    /\ enc.msg.Attachments[1].Filename = "f2"
    /\ enc.msg.Attachments[2].Filename = "f1"

\* C28: with attachments and both bodies the pair of bodies is one nested
\* multipart/alternative part of the outer multipart/mixed envelope: the
\* alternative block opens after the first outer boundary and its
\* terminating boundary comes before the first attachment part.
C28_NestedAlternative ==
    \A bs \in Outputs :
        LET m == enc.msg
            outer == Occur(bs, Opening(<<"BOUNDARY">>))
            opens == Occur(bs, Opening(<<"ALT-BOUNDARY">>))
            ends == Occur(bs, Terminating(<<"ALT-BOUNDARY">>))
        IN  (Len(m.Attachments) > 0 /\ m.Body # <<>> /\ m.HTMLBody # <<>>) =>
                /\ Cardinality(opens) = 2
                /\ Cardinality(ends) = 1
                /\ Cardinality(outer) = Len(m.Attachments) + 1
                /\ Sub(bs, Nth(outer, 1) + 3, Nth(outer, 1) + 5)
                      = <<"Content-Type: ", "multipart/alternative; boundary=", "ALT-BOUNDARY">>
                /\ \A o \in opens : Nth(outer, 1) < o
                /\ \A t \in ends :
                      /\ \A o \in opens : o < t
                      /\ t < Nth(outer, 2)
                      /\ \A i \in t..Nth(outer, 2) :
                            bs[i] # "Content-Disposition: attachment; filename=\""

C28_Witness ==
    /\ Outputs # {}
    /\ Len(enc.msg.Attachments) = 2
    /\ enc.msg.Body # <<>>
    /\ enc.msg.HTMLBody # <<>>

\* The places of the header line starting with name, among the headers,
\* which end at place h.
HeaderAt(bs, h, name) ==
    {i \in 1..h : bs[i] = name /\ (i = 1 \/ bs[i - 1] = "\r\n")}

\* The line at place p holds the addresses of list joined by comma-space.
ListAt(bs, p, list) ==
    /\ \A k \in DOMAIN list : At(bs, p + 2 * k - 1) = list[k]
    /\ \A k \in 1..(Len(list) - 1) : At(bs, p + 2 * k) = ", "
    /\ At(bs, p + 2 * Len(list)) = "\r\n"

\* C29: the headers come in the order MIME-Version, Subject, From, To, Cc,
\* Bcc, extra headers, then one empty line; To, Cc and Bcc each appear iff
\* their list is non-empty, with the addresses joined by comma-space in
\* list order.
C29_HeaderOrder ==
    \A bs \in Outputs :
        LET m == enc.msg
            order == <<"MIME-Version: 1.0", "Subject: ", "From: ", "To: ", "Cc: ", "Bcc: ">>
        IN  \A h \in {HeaderEnd(bs)} :
            \A at \in {[a \in DOMAIN order |-> HeaderAt(bs, h, order[a])]} :
            \A extra \in {[k \in DOMAIN m.Headers |-> HeaderAt(bs, h, k)]} :
            /\ at[1] = {1}
            /\ Cardinality(at[2]) = 1
            /\ Cardinality(at[3]) = 1
            /\ Cardinality(at[4]) = (IF m.Recipients # <<>> THEN 1 ELSE 0)
            /\ Cardinality(at[5]) = (IF m.Cc # <<>> THEN 1 ELSE 0)
            /\ Cardinality(at[6]) = (IF m.Bcc # <<>> THEN 1 ELSE 0)
            /\ \A a, b \in DOMAIN order :
                  a < b => \A i \in at[a], j \in at[b] : i < j
            /\ \A k \in DOMAIN m.Headers :
                  /\ Cardinality(extra[k]) = 1
                  /\ \A j \in extra[k] :
                        /\ At(bs, j + 1) = ": "
                        /\ \A a \in DOMAIN order : \A i \in at[a] : i < j
            /\ \A p \in at[4] : ListAt(bs, p, m.Recipients)
            /\ \A p \in at[5] : ListAt(bs, p, m.Cc)
            /\ \A p \in at[6] : ListAt(bs, p, m.Bcc)

C29_Witness ==
    /\ Outputs # {}
    /\ Len(enc.msg.Recipients) = 2
    /\ Len(enc.msg.Cc) = 2
    /\ enc.msg.Bcc = <<>>
    /\ Cardinality(DOMAIN enc.msg.Headers) = 2

\* The calls of the authenticator so far, by function.
LoginCalls(fn) == {i \in DOMAIN login.log : login.log[i].fn = fn}

\* C30: the LOGIN authenticator's Start returns the mechanism name LOGIN
\* with no data and no error; Next with more=true returns the username for
\* the username prompt, the password for the password prompt, and an error
\* with no data for any other challenge; Next with more=false returns no
\* data and no error.
C30_LoginAuthenticator ==
    /\ \A i \in LoginCalls("Start") :
          LET r == login.log[i].ret
          IN  /\ r.proto = <<"L", "O", "G", "I", "N">>
              /\ r.toServer.bytes = ""
              /\ r.err = <<>>
    /\ \A i \in LoginCalls("Next") :
          LET c == login.log[i]
              r == c.ret
          IN  IF ~c.more
              THEN r.toServer = NilSlice /\ r.err = <<>>
              ELSE IF c.fromServer = "Username:"
              THEN r.toServer = Data(login.auth.username) /\ r.err = <<>>
              ELSE IF c.fromServer = "Password:"
              THEN r.toServer = Data(login.auth.secret) /\ r.err = <<>>
              ELSE /\ r.toServer = NilSlice
                   /\ r.err # <<>>
                   /\ r.err[1].addr = c.fromServer

C30_Witness ==
    /\ Len(login.log) = 2
    /\ login.log[1].fn = "Next"
    /\ login.log[1].more
    /\ login.log[1].fromServer = "username:"
    /\ login.log[1].ret.err # <<>>
    /\ login.log[2].fn = "Next"
    /\ login.log[2].more
    /\ login.log[2].fromServer = "Password:"
    /\ login.auth.username = "Password:"
    /\ login.log[2].ret.toServer = Data(login.auth.secret)

\* An option given the empty or zero value of its kind.
ZeroOption(o) ==
    \/ o.opt = "WithLocalName" /\ o.str = ""
    \/ o.opt = "WithTLSConfig" /\ o.cfg.nil
    \/ o.opt = "WithDialTimeout" /\ o.t <= 0
    \/ o.opt = "WithAuth" /\ o.a.kind = "nil"
    \/ o.opt = "WithSecrets" /\ o.str = ""
    \/ o.opt = "WithSSLEnabled" /\ ~o.b

\* C31: an option with an empty or zero value (empty local name, nil TLS
\* config, non-positive timeout, nil authenticator, empty secret, false SSL
\* flag) leaves the Mailer exactly as it was, including a value set by an
\* earlier option of the same NewMailer call.
C31_ZeroOptionIsNoOp ==
    \A i \in DOMAIN applied :
        ZeroOption(applied[i].opt) => applied[i].after = applied[i].before

C31_Witness ==
    /\ Len(applied) = 2
    /\ applied[1].opt.opt = "WithSSLEnabled"
    /\ applied[1].opt.b
    /\ applied[2].opt.opt = "WithSSLEnabled"
    /\ ~applied[2].opt.b
    /\ mailer.sslEnabled

\* The steps of ConnectAndAuthenticate that can fail, by the call they make.
NegotiationSteps == {"netDialTimeout", "newSmtpClient", "Hello", "StartTLS", "Auth"}

\* The steps whose failure made the running or last call return.
FailedSteps == {calls[i].op : i \in Failures(NegotiationSteps)}

\* C32: for one cause, the errors ConnectAndAuthenticate returns for the
\* failures of distinct steps (dial, client construction, greeting,
\* STARTTLS, authentication) are pairwise different: the error returned for
\* the failure of one step is not the error any other step returns for that
\* cause.
C32_StepToldFromError ==
    (Returned /\ result.kind = "error") =>
        \A s \in FailedSteps :
            \A t \in NegotiationSteps \ {s} :
                result.err # connectError(t, Tail(result.err))

\* The calls of a helper so far.
HelperCalls(fn) == {enc.outs[i] : i \in {j \in DOMAIN enc.outs : enc.outs[j].fn = fn}}

\* The least number of chunks of size n that hold l characters.
Ceil(l, n) == (l + n - 1) \div n

RECURSIVE Concat(_)
Concat(chunks) == IF chunks = <<>> THEN <<>> ELSE Head(chunks) \o Concat(Tail(chunks))

\* C33 as stated: splitting a string of length L into chunks of size N >= 1
\* yields exactly ceil(L/N) chunks, each of length at most N, whose
\* concatenation is the string, for every L including 0 and the multiples
\* of N.
C33_SplitLinesCeil ==
    \A c \in HelperCalls("splitLines") :
        /\ Len(c.ret) = Ceil(Len(c.input), c.maxLength)
        /\ \A i \in DOMAIN c.ret : Len(c.ret[i]) <= c.maxLength
        /\ Concat(c.ret) = c.input

\* C33 amended: the same, except that the empty string yields one empty
\* chunk.
C33_SplitLinesAtLeastOne ==
    \A c \in HelperCalls("splitLines") :
        /\ Len(c.ret) = (IF c.input = <<>> THEN 1 ELSE Ceil(Len(c.input), c.maxLength))
        /\ \A i \in DOMAIN c.ret : Len(c.ret[i]) <= c.maxLength
        /\ Concat(c.ret) = c.input

C33_Witness ==
    /\ Len(enc.outs) = 2
    /\ enc.msg.Body = <<>>
    /\ \A i \in DOMAIN enc.outs :
          /\ enc.outs[i].fn = "splitLines"
          /\ enc.outs[i].maxLength = i
          /\ enc.outs[i].ret = << <<>> >>

\* Restoring the padding of a base64 text.
Pad(s) == s \o [i \in 1..((4 - (Len(s) % 4)) % 4) |-> "="]

\* The value of a character of the base64 alphabet.
Value(ch) == (CHOOSE i \in DOMAIN StdAlphabet : StdAlphabet[i] = ch) - 1

\* base64.StdEncoding.DecodeString of a padded text.
RECURSIVE DecodeString(_)
DecodeString(s) ==
    IF Len(s) < 4 THEN <<>>
    ELSE IF s[3] = "="
    THEN LET n == Value(s[1]) * 262144 + Value(s[2]) * 4096 IN <<n \div 65536>>
    ELSE IF s[4] = "="
    THEN LET n == Value(s[1]) * 262144 + Value(s[2]) * 4096 + Value(s[3]) * 64 IN
         <<n \div 65536, (n \div 256) % 256>>
    ELSE LET n == Value(s[1]) * 262144 + Value(s[2]) * 4096 + Value(s[3]) * 64 + Value(s[4]) IN
         <<n \div 65536, (n \div 256) % 256, n % 256>> \o DecodeString(SubSeq(s, 5, Len(s)))

\* C34: encodeBase64 returns the standard base64 encoding with the trailing
\* padding removed: the result holds no "=", its characters are of the
\* standard alphabet, and restoring the padding and decoding gives the
\* input again.
C34_Base64Unpadded ==
    \A c \in HelperCalls("encodeBase64") :
        /\ \A i \in DOMAIN c.ret : c.ret[i] # "=" /\ \E k \in DOMAIN StdAlphabet : StdAlphabet[k] = c.ret[i]
        /\ Len(c.ret) = Ceil(Len(c.input) * 4, 3)
        /\ DecodeString(Pad(c.ret)) = Bytes(c.input)

C34_Witness ==
    /\ HelperCalls("encodeBase64") # {}
    /\ enc.msg.Subject = <<"i", "n", "p", "u", "t">>
    /\ \A c \in HelperCalls("encodeBase64") : c.ret = <<"a", "W", "5", "w", "d", "X", "Q">>

\* C35: when ConnectAndAuthenticate is called more than once on a Mailer
\* built without an explicit authenticator, each call authenticates with
\* the mechanism selected from the AUTH list the server advertises on that
\* call's own connection.
C35_MechanismFromOwnConnection ==
    \A a \in Indices("Auth") :
        calls[a].arg.kind # "custom" =>
            /\ server.auth
            /\ Queries(AuthExt) # {}
            /\ calls[a].arg.kind = Preferred(server.auths)

\* C36: whenever ConnectAndAuthenticate returns an error after the dial
\* succeeded, the transport opened by that call has been closed.
C36_TransportClosedOnFailure ==
    (Returned /\ result.kind = "error" /\ conn.state # "none") => conn.state = "closed"

\* C37: mailSender.Send issues no MAIL, RCPT or DATA command for a message
\* that fails validation.
C37_ValidationBeforeCommands ==
    validate(sender[1].msg) # <<>> => SendOps(1, {"Mail", "Rcpt", "Data"}) = {}

\* C38: the username and password are never handed to the server over an
\* unencrypted connection: on a connection that is neither implicit-TLS nor
\* upgraded by STARTTLS no LOGIN exchange is completed.
C38_NoLoginOverPlaintext ==
    \A a \in Indices("Auth") :
        (calls[a].arg.kind = "LOGIN" /\ calls[a].ret = "ok") => conn.tls # "none"

\* The characters of the pieces of a delimiter line; any other atom stands
\* for itself.
Spell(atom) ==
    CASE atom = "--" -> <<"-", "-">>
      [] atom = "BOUNDARY" -> <<"B", "O", "U", "N", "D", "A", "R", "Y">>
      [] atom = "ALT-BOUNDARY" -> <<"A", "L", "T", "-", "B", "O", "U", "N", "D", "A", "R", "Y">>
      [] OTHER -> <<atom>>

\* An output with its delimiter lines spelled out character by character.
RECURSIVE Flatten(_)
Flatten(bs) ==
    IF bs = <<>> THEN <<>>
    ELSE IF Len(bs) = 1 THEN Spell(bs[1])
    ELSE Flatten(SubSeq(bs, 1, Len(bs) \div 2))
             \o Flatten(SubSeq(bs, (Len(bs) \div 2) + 1, Len(bs)))

\* The lines of an output that read as the delimiter line d.
DelimiterLines(bs, d) == Occur(bs, <<"\r\n">> \o d)

Multipart(m) == Len(m.Attachments) > 0 \/ (m.Body # <<>> /\ m.HTMLBody # <<>>)

\* C39: in every multipart output a boundary delimiter line ("--BOUNDARY" or
\* "--ALT-BOUNDARY", opening or terminating) occurs only where the encoder
\* places a part separator, never inside the content of a part: read
\* character by character the output holds as many delimiter lines as the
\* encoder wrote.
C39_NoDelimiterInContent ==
    \A bs \in Outputs :
        Multipart(enc.msg) =>
            \A b \in {<<"BOUNDARY">>, <<"ALT-BOUNDARY">>} :
                \A d \in {Opening(b), Terminating(b)} :
                    Cardinality(DelimiterLines(Flatten(bs), Flatten(d)))
                        = Cardinality(DelimiterLines(bs, d))

\* The atoms that begin a header line of a body part.
PartHeaders ==
    {"Content-Type: ", "Content-Transfer-Encoding: 8bit", "Content-Transfer-Encoding: base64",
     "Content-Disposition: attachment; filename=\""}

\* The place where the line after the one holding place i begins.
NextLine(bs, i) == 1 + (CHOOSE j \in i..Len(bs) : bs[j] = "\r\n" /\ \A k \in i..(j - 1) : bs[k] # "\r\n")

\* The place of the first line at or after place i that is not a header
\* line of a part.
RECURSIVE PartHeadersEnd(_, _)
PartHeadersEnd(bs, i) ==
    IF At(bs, i) \in PartHeaders THEN PartHeadersEnd(bs, NextLine(bs, i)) ELSE i

\* C40: in every multipart output the header lines of each body part, the
\* nested multipart/alternative part included, are followed by an empty
\* line before the part's content or its first nested delimiter.
C40_EmptyLineAfterPartHeaders ==
    \A bs \in Outputs :
        \A b \in {<<"BOUNDARY">>, <<"ALT-BOUNDARY">>} :
            \A o \in Occur(bs, Opening(b)) :
                /\ At(bs, o + 3) \in PartHeaders
                /\ At(bs, PartHeadersEnd(bs, o + 3)) = "\r\n"

====
